---- MODULE Spec2Model ----
(***************************************************************************)
(* Model of the competitive-intelligence workflow                          *)
(* (agents/orchestrator/workflow.py, agents/deep_research/agent.py,        *)
(* agents/synthesizer/agent.py, agents/state.py) and of the research cache *)
(* (backend/services/cache.py).                                            *)
(*                                                                         *)
(* Conventions.                                                            *)
(*  - Optional[T] is a sequence: <<>> is None, <<x>> is the value x.       *)
(*  - A str is a sequence of one-character strings.                        *)
(*  - A datetime is [day, us]: whole days and the sub-second part.         *)
(*  - A float score is an integer number of hundredths.                    *)
(***************************************************************************)
EXTENDS Integers, Sequences, FiniteSets, TLC

VARIABLES
    cache,      \* the cache directory: file name -> Optional[file content]
    now,        \* the wall clock read by datetime.now()
    ticks,      \* number of clock advances so far
    stamp,      \* history: file name -> Optional[the time its entry was stored]
    lastStore,  \* history: the last successful cache_research, if no other cache operation followed
    lastGet,    \* history: the last get_cached_research call, with the file before and after
    writing,    \* Optional: the last cache_research call that opened its file, and how far it got
    workflow_sessions, \* the session registry of the API: session id -> session data
    background, \* the background tasks of the API: session id -> task
    response,   \* history: the last API call with its outcome
    parked,     \* Optional: the run of a second session while the first one has the event loop
    state,      \* the CompetitiveIntelligenceState of the run
    checkpoint, \* Optional: the state the checkpointer saved last for the run's thread
    node,       \* the graph node that runs next ("END" after finalize, "returned" after execute_workflow)
    agent,      \* locals of DeepResearchAgent.execute while it runs: loop index and research_results
    synth,      \* locals of SynthesizerAgent.execute while it runs: the substep due and the results so far
    step,       \* supersteps the graph has executed
    final,      \* Optional: the state execute_workflow returned
    faults,     \* number of exceptions injected into steps so far
    writeKept,  \* whether the runtime keeps a write the routing function made to its state argument
    hist        \* history: how often each step ran, the last routing decision

cacheVars == <<cache, now, ticks, stamp, lastStore, lastGet, writing>>

runVars == <<state, checkpoint, node, agent, synth, step, final, faults, writeKept, hist>>

apiVars == <<workflow_sessions, background, response, parked>>

vars == <<cache, now, ticks, stamp, lastStore, lastGet, writing, state, checkpoint, node, agent, synth, step, final, faults, writeKept, hist, workflow_sessions, background, response, parked>>

-----------------------------------------------------------------------------
(* Bounds of the model *)

MaxTicks == 2

MaxAdvances == 1

MaxTargets == 2

MaxFaults == 1

-----------------------------------------------------------------------------
(* Values *)

None == <<>>
Some(x) == <<x>>

max_research_age_days == 60

DateTime(d, u) == [day |-> d, us |-> u]

\* datetime comparison a > b
Later(a, b) == a.day > b.day \/ (a.day = b.day /\ a.us > b.us)

\* dt + timedelta(days=n)
PlusDays(dt, n) == [day |-> dt.day + n, us |-> dt.us]

\* datetime.isoformat(): the fractional part is printed only when it is not zero
isoformat(dt) == IF dt.us = 0 THEN <<dt.day>> ELSE <<dt.day, dt.us>>

\* datetime.fromisoformat(): a text without a fractional part has us = 0
fromisoformat(txt) == [day |-> txt[1], us |-> IF Len(txt) >= 2 THEN txt[2] ELSE 0]

-----------------------------------------------------------------------------
(* Strings *)

isalnum(c) == c \in {"a", "b", "c", "A", "B", "C", "1"}

lower(c) == CASE c = "A" -> "a" [] c = "B" -> "b" [] c = "C" -> "c" [] OTHER -> c

RECURSIVE rstrip(_)
rstrip(s) == IF s # <<>> /\ s[Len(s)] = " " THEN rstrip(SubSeq(s, 1, Len(s) - 1)) ELSE s

RECURSIVE FilterSafe(_)
FilterSafe(s) ==
    IF s = <<>> THEN <<>>
    ELSE IF isalnum(s[1]) \/ s[1] \in {" ", "-", "_"}
         THEN <<s[1]>> \o FilterSafe(Tail(s))
         ELSE FilterSafe(Tail(s))

FocusPrefixLen == 30

Prefix(s, n) == SubSeq(s, 1, IF Len(s) < n THEN Len(s) ELSE n)

\* _get_cache_file_path without the rstrip() of the competitor
get_cache_file_path_no_rstrip(competitor, research_focus) ==
    LET safe_competitor == FilterSafe(competitor)
        safe_focus == rstrip(FilterSafe(Prefix(research_focus, FocusPrefixLen)))
        filename == safe_competitor \o <<"_">> \o safe_focus \o <<".json">>
    IN  [i \in 1..Len(filename) |-> IF filename[i] = " " THEN "_" ELSE lower(filename[i])]

\* ResearchCache._get_cache_file_path: the file name (the cache key)
get_cache_file_path(competitor, research_focus) ==
    LET safe_competitor == rstrip(FilterSafe(competitor))
        safe_focus == rstrip(FilterSafe(Prefix(research_focus, FocusPrefixLen)))
        filename == safe_competitor \o <<"_">> \o safe_focus \o <<".json">>
    IN  [i \in 1..Len(filename) |-> IF filename[i] = " " THEN "_" ELSE lower(filename[i])]

-----------------------------------------------------------------------------
(* backend/models/schemas.py *)

ResearchSource(url, title, source_type, publication_date, author, credibility_score) ==
    [url |-> url, title |-> title, source_type |-> source_type,
     publication_date |-> publication_date, author |-> author,
     credibility_score |-> credibility_score]

ResearchData(competitor, ai_narrative, key_initiatives, investment_data, market_positioning, sources, research_timestamp, confidence_score) ==
    [competitor |-> competitor, ai_narrative |-> ai_narrative,
     key_initiatives |-> key_initiatives, investment_data |-> investment_data,
     market_positioning |-> market_positioning, sources |-> sources,
     research_timestamp |-> research_timestamp, confidence_score |-> confidence_score]

-----------------------------------------------------------------------------
(* backend/services/cache.py: serialization *)

\* The source entry written without the 'author' key
serialize_source_no_author(source) ==
    [url |-> source.url,
     title |-> source.title,
     source_type |-> source.source_type,
     publication_date |-> isoformat(source.publication_date),
     author |-> None,
     credibility_score |-> source.credibility_score]

\* ResearchCache._serialize_research_data, one entry of 'sources'
serialize_source(source) ==
    [url |-> source.url,
     title |-> source.title,
     source_type |-> source.source_type,
     publication_date |-> isoformat(source.publication_date),
     author |-> source.author,
     credibility_score |-> source.credibility_score]

\* ResearchCache._serialize_research_data
serialize_research_data(research_data) ==
    [competitor |-> research_data.competitor,
     ai_narrative |-> research_data.ai_narrative,
     key_initiatives |-> research_data.key_initiatives,
     investment_data |-> research_data.investment_data,
     market_positioning |-> research_data.market_positioning,
     sources |-> [i \in 1..Len(research_data.sources) |->
                     serialize_source(research_data.sources[i])],
     research_timestamp |-> isoformat(research_data.research_timestamp),
     confidence_score |-> research_data.confidence_score]

deserialize_source(source) ==
    ResearchSource(source.url, source.title, source.source_type,
                   fromisoformat(source.publication_date),
                   source.author, source.credibility_score)

\* ResearchCache._deserialize_research_data
deserialize_research_data(data) ==
    ResearchData(data.competitor, data.ai_narrative, data.key_initiatives,
                 data.investment_data, data.market_positioning,
                 [i \in 1..Len(data.sources) |-> deserialize_source(data.sources[i])],
                 fromisoformat(data.research_timestamp),
                 data.confidence_score)

-----------------------------------------------------------------------------
(* backend/services/cache.py: the operations, as functions of the file *)

\* What a write that raised after open(cache_file, 'w') leaves on disk: a
\* truncated document, on which json.load raises.
TornFile == Some([complete |-> FALSE])

\* The document json.dump writes for cache_entry.
CacheEntry(competitor, research_focus, cached_at, research_data) ==
    [complete |-> TRUE,
     competitor |-> competitor,
     research_focus |-> research_focus,
     cached_at |-> isoformat(cached_at),
     research_data |-> serialize_research_data(research_data)]

IsExpired(entry, t) ==
    LET cached_time == fromisoformat(entry.cached_at)
        expiry_time == PlusDays(cached_time, max_research_age_days)
    IN  Later(t, expiry_time)

\* get_cached_research returning None for an expired entry without unlinking it
get_cached_research_no_unlink(f, t, io) ==
    IF f = None THEN [result |-> None, file |-> f]
    ELSE IF io = "read_fail" THEN [result |-> None, file |-> f]
    ELSE IF ~f[1].complete THEN [result |-> None, file |-> f]
    ELSE IF IsExpired(f[1], t) THEN [result |-> None, file |-> f]
    ELSE [result |-> Some(deserialize_research_data(f[1].research_data)), file |-> f]

\* ResearchCache.get_cached_research on a file with content f at time t.
\* io = "read_fail": open() or the read raises.  Result: the returned
\* Optional[ResearchData] and the content of the file afterwards.
get_cached_research(f, t, io) ==
    IF f = None THEN [result |-> None, file |-> f]
    ELSE IF io = "read_fail" THEN [result |-> None, file |-> f]
    ELSE IF ~f[1].complete THEN [result |-> None, file |-> f]
    ELSE IF IsExpired(f[1], t) THEN [result |-> None, file |-> None]
    ELSE [result |-> Some(deserialize_research_data(f[1].research_data)), file |-> f]

\* cache_research reporting success whenever the file could be opened
cache_research_reports_success(f, competitor, research_focus, research_data, t, io) ==
    IF io = "open_fail" THEN [result |-> FALSE, file |-> f]
    ELSE IF io = "dump_fail" THEN [result |-> TRUE, file |-> TornFile]
    ELSE [result |-> TRUE,
          file |-> Some(CacheEntry(competitor, research_focus, t, research_data))]

\* cache_research answering True without writing the file
cache_research_discards(f, competitor, research_focus, research_data, t, io) ==
    [result |-> TRUE, file |-> f]

\* ResearchCache.cache_research.  io = "open_fail": open(cache_file, 'w')
\* raises, the file is untouched; io = "dump_fail": the write raises after the
\* file was opened (and truncated).
cache_research(f, competitor, research_focus, research_data, t, io) ==
    IF io = "open_fail" THEN [result |-> FALSE, file |-> f]
    ELSE IF io = "dump_fail" THEN [result |-> FALSE, file |-> TornFile]
    ELSE [result |-> TRUE,
          file |-> Some(CacheEntry(competitor, research_focus, t, research_data))]

-----------------------------------------------------------------------------
(* agents/deep_research/agent.py: what one extraction yields *)

\* DeepResearchAgent._extract_source_info
extract_source_info(url, t) ==
    ResearchSource(url, <<"Research Source">>, "report", PlusDays(t, -30), None, 80)

\* DeepResearchAgent._create_default_source
create_default_source(competitor, t) ==
    ResearchSource(<<"https://research.tcs.com/competitors/">> \o
                       [i \in 1..Len(competitor) |-> lower(competitor[i])],
                   competitor \o <<" AI Strategy Analysis">>,
                   "research", PlusDays(t, -14), None, 70)

\* The outcomes of DeepResearchAgent._research_competitor for one competitor:
\*   "none"       primary and fallback call both failed, None is returned
\*   "sources"    a response in which source lines were found
\*   "no_sources" a response without source lines
\*   "minimal"    parsing raised, the minimal record is returned
\* The run is driven with three of them ("no_sources" differs from "sources"
\* only in the source list and the score 0.6).
RunOutcomes == {"none", "sources", "minimal"}

\* DeepResearchAgent._parse_research_response
parse_research_response(competitor, outcome, t) ==
    IF outcome = "minimal"
    THEN ResearchData(competitor, <<"Research data for ">> \o competitor,
                      <<competitor \o <<" AI strategy">>>>, None,
                      competitor \o <<" market position">>,
                      <<create_default_source(competitor, t)>>, t, 50)
    ELSE ResearchData(competitor, competitor \o <<" AI strategy analysis">>,
                      <<competitor \o <<" AI initiatives">>>>, None,
                      competitor \o <<" positioning in AI services market">>,
                      IF outcome = "sources"
                      THEN <<extract_source_info(<<"http1">>, t), extract_source_info(<<"http2">>, t)>>
                      ELSE <<create_default_source(competitor, t)>>,
                      t,
                      IF outcome = "sources" THEN 80 ELSE 60)

\* _validate_research_results dropping records with fewer than min_sources sources
validate_research_results_min_sources(results, min_sources) ==
    SelectSeq(results, LAMBDA r: Len(r.sources) >= min_sources)

\* DeepResearchAgent._validate_research_results: every non-None result is kept
validate_research_results(results, min_sources) ==
    SelectSeq(results, LAMBDA r: TRUE)

-----------------------------------------------------------------------------
(* agents/state.py *)

AgentState(status, progress_percentage, error_message) ==
    [status |-> status, progress_percentage |-> progress_percentage,
     error_message |-> error_message]

min_sources_per_competitor == 3

\* create_initial_state handing out lists an earlier session has appended to
create_initial_state_reused_lists(session_id, target_competitors, research_focus) ==
    [session_id |-> session_id,
     workflow_status |-> "pending",
     target_competitors |-> target_competitors,
     research_focus |-> research_focus,
     agents_state |-> [deep_research |-> AgentState("pending", 0, None),
                       synthesizer |-> AgentState("pending", 0, None)],
     research_data |-> <<>>,
     executive_report |-> None,
     error_messages |-> <<"Deep research failed">>,
     validation_result |-> None,
     retry_count |-> 0]

\* create_initial_state giving every state the same session id
create_initial_state_one_session(session_id, target_competitors, research_focus) ==
    [session_id |-> "session",
     workflow_status |-> "pending",
     target_competitors |-> target_competitors,
     research_focus |-> research_focus,
     agents_state |-> [deep_research |-> AgentState("pending", 0, None),
                       synthesizer |-> AgentState("pending", 0, None)],
     research_data |-> <<>>,
     executive_report |-> None,
     error_messages |-> <<>>,
     validation_result |-> None,
     retry_count |-> 0]

create_initial_state(session_id, target_competitors, research_focus) ==
    [session_id |-> session_id,
     workflow_status |-> "pending",
     target_competitors |-> target_competitors,
     research_focus |-> research_focus,
     agents_state |-> [deep_research |-> AgentState("pending", 0, None),
                       synthesizer |-> AgentState("pending", 0, None)],
     research_data |-> <<>>,
     executive_report |-> None,
     error_messages |-> <<>>,
     validation_result |-> None,
     retry_count |-> 0]

-----------------------------------------------------------------------------
(* agents/orchestrator/workflow.py: validation and routing *)

\* The confidence threshold of _validate_research_node (0.5), in hundredths.
MinConfidence == 50

\* valid_competitors: the loop of _validate_research_node
valid_competitors(research_data) ==
    Len(SelectSeq(research_data, LAMBDA data: data.confidence_score >= MinConfidence))

\* required_70_percent and required_50_percent are len(target_competitors) * 0.7
\* and * 0.5; both are kept in tenths here, so valid_competitors is compared
\* after scaling by 10.  (The float products compare with an integer exactly
\* as the exact products do.)
required_70_percent(target_competitors) == Len(target_competitors) * 7

required_50_percent(target_competitors) == Len(target_competitors) * 5

\* The decision with a strict comparison against required_50_percent
validation_decision_strict(research_data, target_competitors) ==
    IF research_data = <<>> THEN "fail"
    ELSE IF Len(target_competitors) = 1 /\ valid_competitors(research_data) >= 1 THEN "proceed"
    ELSE IF valid_competitors(research_data) * 10 >= required_70_percent(target_competitors) THEN "proceed"
    ELSE IF valid_competitors(research_data) * 10 > required_50_percent(target_competitors) THEN "retry"
    ELSE "fail"

\* The decision of _validate_research_node when nothing raises.
validation_decision(research_data, target_competitors) ==
    IF research_data = <<>> THEN "fail"
    ELSE IF Len(target_competitors) = 1 /\ valid_competitors(research_data) >= 1 THEN "proceed"
    ELSE IF valid_competitors(research_data) * 10 >= required_70_percent(target_competitors) THEN "proceed"
    ELSE IF valid_competitors(research_data) * 10 >= required_50_percent(target_competitors) THEN "retry"
    ELSE "fail"

\* _validate_research_node letting an empty collection through
validate_research_node_proceeds_empty(st, raises) ==
    IF raises
    THEN [st EXCEPT !.error_messages = Append(@, "Validation error"),
                    !.validation_result = Some("fail")]
    ELSE IF st.research_data = <<>>
    THEN [st EXCEPT !.error_messages = Append(@, "No research data found"),
                    !.validation_result = Some("proceed")]
    ELSE [st EXCEPT !.validation_result =
                        Some(validation_decision(st.research_data, st.target_competitors))]

\* CompetitiveIntelligenceWorkflow._validate_research_node: the state it returns.
\* raises = TRUE: an exception inside its try block.
validate_research_node(st, raises) ==
    IF raises
    THEN [st EXCEPT !.error_messages = Append(@, "Validation error"),
                    !.validation_result = Some("fail")]
    ELSE IF st.research_data = <<>>
    THEN [st EXCEPT !.error_messages = Append(@, "No research data found"),
                    !.validation_result = Some("fail")]
    ELSE [st EXCEPT !.validation_result =
                        Some(validation_decision(st.research_data, st.target_competitors))]

\* _should_proceed_to_synthesis allowing a second retry
should_proceed_two_retries(st) ==
    IF st.validation_result = Some("proceed")
    THEN [edge |-> "proceed", retry_count |-> st.retry_count]
    ELSE IF st.validation_result = Some("retry")
    THEN IF st.retry_count < 2
         THEN [edge |-> "retry", retry_count |-> st.retry_count + 1]
         ELSE [edge |-> "proceed", retry_count |-> st.retry_count]
    ELSE [edge |-> "fail", retry_count |-> st.retry_count]

\* CompetitiveIntelligenceWorkflow._should_proceed_to_synthesis: the edge it
\* returns and the retry_count it leaves in the state object it was handed.
should_proceed_to_synthesis(st) ==
    IF st.validation_result = Some("proceed")
    THEN [edge |-> "proceed", retry_count |-> st.retry_count]
    ELSE IF st.validation_result = Some("retry")
    THEN IF st.retry_count < 1
         THEN [edge |-> "retry", retry_count |-> st.retry_count + 1]
         ELSE [edge |-> "proceed", retry_count |-> st.retry_count]
    ELSE [edge |-> "fail", retry_count |-> st.retry_count]

\* Conditional edges that send "fail" to the synthesizer
EdgeTargetFailToSynthesis(edge) ==
    CASE edge = "proceed" -> "synthesizer"
      [] edge = "retry" -> "deep_research"
      [] edge = "fail" -> "synthesizer"

\* _build_workflow: the conditional edges out of validate_research
EdgeTarget(edge) ==
    CASE edge = "proceed" -> "synthesizer"
      [] edge = "retry" -> "deep_research"
      [] edge = "fail" -> "finalize"

\* The graph runtime stops a run with GraphRecursionError once this many
\* supersteps have run and a node is still due; execute_workflow passes a
\* config without recursion_limit, so the runtime's default applies.
RecursionLimit == 25

-----------------------------------------------------------------------------
(* agents/synthesizer/agent.py and the remaining nodes *)

RECURSIVE SumSources(_)
SumSources(research_data) ==
    IF research_data = <<>> THEN 0
    ELSE Len(research_data[1].sources) + SumSources(Tail(research_data))

\* An ExecutiveReport whose data_sources_count counts the records
ExecutiveReport_counts_records(research_data, t) ==
    [generation_timestamp |-> t,
     competitor_analysis |-> research_data,
     data_sources_count |-> Len(research_data),
     research_timeframe |-> max_research_age_days]

ExecutiveReport(research_data, t) ==
    [generation_timestamp |-> t,
     competitor_analysis |-> research_data,
     data_sources_count |-> SumSources(research_data),
     research_timeframe |-> max_research_age_days]

\* A synthesizer that stores the report without setting workflow_status
synthesizer_node_no_status(st, t, outcome) ==
    IF outcome = "node_raise"
    THEN [st EXCEPT !.error_messages = Append(@, "Synthesis failed"),
                    !.workflow_status = "failed"]
    ELSE IF outcome = "agent_raise" \/ st.research_data = <<>>
    THEN [st EXCEPT !.agents_state.synthesizer = AgentState("failed", @.progress_percentage, Some("error")),
                    !.error_messages = Append(@, "Synthesizer agent failed"),
                    !.workflow_status = "failed"]
    ELSE [st EXCEPT !.executive_report = Some(ExecutiveReport(st.research_data, t)),
                    !.agents_state.synthesizer = AgentState("completed", 100, None)]

\* CompetitiveIntelligenceWorkflow._synthesizer_node around SynthesizerAgent.execute.
\*   outcome "ok":          nothing raises outside the substeps' own handlers
\*   outcome "agent_raise": an exception inside the try block of execute
\*   outcome "node_raise":  an exception that escapes execute
synthesizer_node(st, t, outcome) ==
    IF outcome = "node_raise"
    THEN [st EXCEPT !.error_messages = Append(@, "Synthesis failed"),
                    !.workflow_status = "failed"]
    ELSE IF outcome = "agent_raise" \/ st.research_data = <<>>
    THEN [st EXCEPT !.agents_state.synthesizer = AgentState("failed", @.progress_percentage, Some("error")),
                    !.error_messages = Append(@, "Synthesizer agent failed"),
                    !.workflow_status = "failed"]
    ELSE [st EXCEPT !.executive_report = Some(ExecutiveReport(st.research_data, t)),
                    !.agents_state.synthesizer = AgentState("completed", 100, None),
                    !.workflow_status = "completed"]

\* _finalize_node setting a status only when a report exists
finalize_node_only_completed(st) ==
    IF (st.workflow_status = "in_progress" \/ st.workflow_status = "pending")
       /\ st.executive_report # None
    THEN [st EXCEPT !.workflow_status = "completed"]
    ELSE st

\* CompetitiveIntelligenceWorkflow._finalize_node
finalize_node(st) ==
    IF st.workflow_status = "in_progress" \/ st.workflow_status = "pending"
    THEN IF st.executive_report # None
         THEN [st EXCEPT !.workflow_status = "completed"]
         ELSE [st EXCEPT !.workflow_status = "failed"]
    ELSE st

\* The default of create_initial_state's research_focus parameter
DefaultResearchFocus == <<"AI narrative and strategic initiatives">>

\* execute_workflow's except branch: the state it returns when ainvoke raised
\* (create_initial_state is called there without the run's research_focus)
error_state(session_id, target_competitors) ==
    [create_initial_state(session_id, target_competitors, DefaultResearchFocus) EXCEPT
        !.workflow_status = "failed",
        !.error_messages = <<"Workflow execution failed">>]

-----------------------------------------------------------------------------
(* The run of execute_workflow as a state machine *)

\* The session id of the run
RunSession == "s1"

TargetName(k) == <<"c">> \o [j \in 1..k |-> "1"]

TargetList(n) == [k \in 1..n |-> TargetName(k)]

Focus == <<"A", "I", " ", "a", "!">>

Files(names, focuses) == {get_cache_file_path(c, f) : c \in names, f \in focuses}

IdleAgent == [pc |-> "idle", i |-> 0, research_results |-> <<>>]

\* SynthesizerAgent.execute is not running
IdleSynth == [pc |-> "idle", calls |-> <<>>, failed |-> {}, results |-> <<>>]

NoHist == [research |-> 0, synthesis |-> 0, retry_seen |-> FALSE, forced |-> FALSE]

GraphNodes == {"deep_research", "validate_research", "synthesizer", "finalize"}

\* The API before any request: an empty registry, no task, no call made
NoApi ==
    /\ workflow_sessions = << >>
    /\ background = << >>
    /\ response = None
    /\ parked = None

\* The history variable stamp after a lookup and after a store
StampAfterGet(old, got) == IF got.file = None THEN None ELSE old

StampAfterPut(old, io, t) ==
    IF io = "ok" THEN Some(t) ELSE IF io = "dump_fail" THEN None ELSE old

\* Between the earlier runs and this one the clock moves past the expiry of
\* what they cached.
DaysPass ==
    /\ ticks < MaxAdvances
    /\ node = "deep_research" /\ agent.pc = "idle" /\ step = 0
    /\ now' = PlusDays(now, max_research_age_days + 1)
    /\ ticks' = ticks + 1
    /\ UNCHANGED <<cache, stamp, lastStore, lastGet, writing, runVars, apiVars>>

\* The clock moves: later the same day, or max_research_age_days later.
Tick ==
    /\ ticks < MaxTicks
    /\ \E d \in {0, max_research_age_days} : \E u \in {0, 7} :
          /\ Later(DateTime(now.day + d, u), now)
          /\ now' = DateTime(now.day + d, u)
    /\ ticks' = ticks + 1
    /\ lastGet' = None
    /\ UNCHANGED <<cache, stamp, lastStore, writing, runVars, apiVars>>

\* _deep_research_node is entered: either DeepResearchAgent.execute starts its
\* loop, or it raises before its try block and the node's handler runs.
DeepResearchEnter ==
    /\ node = "deep_research" /\ agent.pc = "idle" /\ step < RecursionLimit
    /\ hist' = [hist EXCEPT !.research = @ + 1]
    /\ \/ /\ state' = [state EXCEPT !.agents_state.deep_research = AgentState("in_progress", 0, @.error_message)]
          /\ agent' = [pc |-> "loop", i |-> 1, research_results |-> <<>>]
          /\ UNCHANGED <<node, step, faults, checkpoint>>
       \/ /\ faults < MaxFaults
          /\ state' = [state EXCEPT !.error_messages = Append(@, "Deep research failed"),
                                    !.workflow_status = "failed"]
          /\ node' = "validate_research"
          /\ step' = step + 1
          /\ faults' = faults + 1
          /\ checkpoint' = Some(state')
          /\ UNCHANGED agent
    /\ UNCHANGED <<cacheVars, apiVars, final, writeKept, synth>>

\* research_one appending the record it took from the cache a second time
research_one_appends_twice(competitor, research_focus, f, t, ioR, ioW, outcome) ==
    LET got == get_cached_research(f, t, ioR)
        competitor_data == parse_research_response(competitor, outcome, t)
        put == cache_research(got.file, competitor, research_focus, competitor_data, t, ioW)
    IN  IF got.result # None
        THEN [possible |-> ioW = "ok" /\ outcome = "none",
              appended |-> got.result \o got.result, file |-> got.file, missing |-> FALSE, stored |-> FALSE]
        ELSE IF outcome = "none"
        THEN [possible |-> ioW = "ok" /\ (ioR # "ok" => f # None),
              appended |-> None, file |-> got.file, missing |-> got.file = None, stored |-> FALSE]
        ELSE [possible |-> (ioR # "ok" => f # None),
              appended |-> Some(competitor_data), file |-> put.file, missing |-> got.file = None,
              stored |-> TRUE]

\* The body of the loop of DeepResearchAgent.execute for one competitor:
\* the cache is consulted; on a hit the cached record is taken; on a miss the
\* competitor is researched and a record that came back is stored.  The
\* result lists what was appended to research_results, what the cache file
\* holds afterwards, whether the file was missing after the lookup and whether
\* a store was attempted.  possible tells whether the choice of outcomes applies
\* (no extraction and no store happen after a hit, no store after "none").
research_one(competitor, research_focus, f, t, ioR, ioW, outcome) ==
    LET got == get_cached_research(f, t, ioR)
        competitor_data == parse_research_response(competitor, outcome, t)
        put == cache_research(got.file, competitor, research_focus, competitor_data, t, ioW)
    IN  IF got.result # None
        THEN [possible |-> ioW = "ok" /\ outcome = "none",
              appended |-> got.result, file |-> got.file, missing |-> FALSE, stored |-> FALSE]
        ELSE IF outcome = "none"
        THEN [possible |-> ioW = "ok" /\ (ioR # "ok" => f # None),
              appended |-> None, file |-> got.file, missing |-> got.file = None, stored |-> FALSE]
        ELSE [possible |-> (ioR # "ok" => f # None),
              appended |-> Some(competitor_data), file |-> put.file, missing |-> got.file = None,
              stored |-> TRUE]

\* The loop of DeepResearchAgent.execute has a competitor left
InResearchLoop ==
    /\ node = "deep_research" /\ agent.pc = "loop"
    /\ agent.i <= Len(state.target_competitors)

\* One iteration of the loop of DeepResearchAgent.execute, for competitor i.
ResearchCompetitor ==
    /\ InResearchLoop
    /\ \E ioR \in {"ok", "read_fail"} : \E ioW \in {"ok", "open_fail", "dump_fail"} :
       \E outcome \in RunOutcomes :
          LET competitor == state.target_competitors[agent.i]
              file == get_cache_file_path(competitor, state.research_focus)
              progress == ((agent.i - 1) * 80) \div Len(state.target_competitors)
              one == research_one(competitor, state.research_focus, cache[file], now, ioR, ioW, outcome)
              nfaults == (IF ioR = "ok" THEN 0 ELSE 1) + (IF ioW = "ok" THEN 0 ELSE 1)
              afterGet == IF one.missing THEN None ELSE stamp[file]
          IN  /\ one.possible
              /\ faults + nfaults <= MaxFaults
              /\ faults' = faults + nfaults
              /\ state' = [state EXCEPT !.agents_state.deep_research.progress_percentage = progress]
              /\ agent' = [agent EXCEPT !.i = @ + 1, !.research_results = @ \o one.appended]
              /\ cache' = [cache EXCEPT ![file] = one.file]
              /\ stamp' = [stamp EXCEPT ![file] =
                              IF one.stored THEN StampAfterPut(afterGet, ioW, now) ELSE afterGet]
    /\ UNCHANGED <<now, ticks, lastStore, lastGet, writing, apiVars, checkpoint, node, step, final, writeKept, hist, synth>>

\* An exception inside the try block of DeepResearchAgent.execute (outside the
\* per-competitor handler): research_data is not assigned.
ResearchRaise ==
    /\ node = "deep_research" /\ agent.pc = "loop"
    /\ faults < MaxFaults
    /\ state' = [state EXCEPT !.agents_state.deep_research = AgentState("failed", @.progress_percentage, Some("error")),
                              !.error_messages = Append(@, "Deep research agent failed")]
    /\ agent' = IdleAgent
    /\ node' = "validate_research"
    /\ step' = step + 1
    /\ faults' = faults + 1
    /\ checkpoint' = Some(state')
    /\ UNCHANGED <<cacheVars, apiVars, final, writeKept, hist, synth>>

\* The loop is over: final processing of DeepResearchAgent.execute.
ResearchFinish ==
    /\ node = "deep_research" /\ agent.pc = "loop"
    /\ agent.i > Len(state.target_competitors)
    /\ state' = [state EXCEPT !.research_data = validate_research_results(agent.research_results, min_sources_per_competitor),
                              !.agents_state.deep_research = AgentState("completed", 100, @.error_message)]
    /\ agent' = IdleAgent
    /\ node' = "validate_research"
    /\ step' = step + 1
    /\ checkpoint' = Some(state')
    /\ UNCHANGED <<cacheVars, apiVars, final, faults, writeKept, hist, synth>>

\* _validate_research_node followed by the conditional edge
\* _should_proceed_to_synthesis, one superstep.  The node's returned state is
\* committed; the routing function runs on the state object the runtime hands
\* it, and its write to retry_count reaches the committed state only when the
\* runtime keeps such writes (writeKept).
ValidateResearchNode ==
    /\ node = "validate_research" /\ step < RecursionLimit
    /\ \E raises \in BOOLEAN :
          /\ raises => faults < MaxFaults
          /\ faults' = IF raises THEN faults + 1 ELSE faults
          /\ LET validated == validate_research_node(state, raises)
                 routed == should_proceed_to_synthesis(validated)
             IN  /\ state' = IF writeKept
                             THEN [validated EXCEPT !.retry_count = routed.retry_count]
                             ELSE validated
                 /\ node' = EdgeTarget(routed.edge)
                 /\ hist' = [hist EXCEPT
                       !.retry_seen = @ \/ routed.edge = "retry",
                       !.forced = @ \/ (validated.validation_result = Some("retry") /\ routed.edge = "proceed")]
    /\ step' = step + 1
    /\ checkpoint' = Some(state')
    /\ UNCHANGED <<cacheVars, apiVars, agent, final, writeKept, synth>>

\* _synthesizer_node, one superstep
SynthesizerNode ==
    /\ node = "synthesizer" /\ step < RecursionLimit
    /\ \E outcome \in {"ok", "agent_raise", "node_raise"} :
          /\ outcome # "ok" => faults < MaxFaults
          /\ faults' = IF outcome # "ok" THEN faults + 1 ELSE faults
          /\ state' = synthesizer_node(state, now, outcome)
    /\ node' = "finalize"
    /\ step' = step + 1
    /\ hist' = [hist EXCEPT !.synthesis = @ + 1]
    /\ checkpoint' = Some(state')
    /\ UNCHANGED <<cacheVars, apiVars, agent, final, writeKept, synth>>

\* _finalize_node, one superstep
FinalizeNode ==
    /\ node = "finalize" /\ step < RecursionLimit
    /\ state' = finalize_node(state)
    /\ node' = "END"
    /\ step' = step + 1
    /\ checkpoint' = Some(state')
    /\ UNCHANGED <<cacheVars, apiVars, agent, final, faults, writeKept, hist, synth>>

\* ainvoke returns the final state and execute_workflow returns it
ReturnFinalState ==
    /\ node = "END"
    /\ final' = Some(state)
    /\ node' = "returned"
    /\ UNCHANGED <<cacheVars, apiVars, state, checkpoint, agent, step, faults, writeKept, hist, synth>>

\* ainvoke raises GraphRecursionError: a node is due after RecursionLimit
\* supersteps; execute_workflow's handler returns error_state
RecursionError ==
    /\ node \in GraphNodes /\ agent.pc = "idle"
    /\ step >= RecursionLimit
    /\ final' = Some(error_state(state.session_id, state.target_competitors))
    /\ node' = "returned"
    /\ UNCHANGED <<cacheVars, apiVars, state, checkpoint, agent, step, faults, writeKept, hist, synth>>

\* An entry an earlier run left in the cache
EarlierEntry(competitor) ==
    Some(CacheEntry(competitor, Focus, DateTime(0, 0),
                    parse_research_response(competitor, "sources", DateTime(0, 0))))

Init ==
    /\ \E n \in 1..MaxTargets : state = create_initial_state(RunSession, TargetList(n), Focus)
    /\ checkpoint = Some(state)
    /\ node = "deep_research"
    /\ agent = IdleAgent
    /\ synth = IdleSynth
    /\ step = 0
    /\ final = None
    /\ faults = 0
    /\ writeKept \in BOOLEAN
    /\ hist = NoHist
    /\ \E old \in SUBSET {TargetName(k) : k \in 1..MaxTargets} :
          cache = [f \in Files({TargetName(k) : k \in 1..MaxTargets}, {Focus}) |->
                      IF \E c \in old : get_cache_file_path(c, Focus) = f
                      THEN EarlierEntry(CHOOSE c \in old : get_cache_file_path(c, Focus) = f)
                      ELSE None]
    /\ stamp = [f \in DOMAIN cache |-> IF cache[f] = None THEN None ELSE Some(DateTime(0, 0))]
    /\ writing = None
    /\ NoApi
    /\ now = DateTime(0, 0)
    /\ ticks = 0
    /\ lastStore = None
    /\ lastGet = None

Next ==
    \/ DaysPass
    \/ DeepResearchEnter
    \/ ResearchCompetitor
    \/ ResearchRaise
    \/ ResearchFinish
    \/ ValidateResearchNode
    \/ SynthesizerNode
    \/ FinalizeNode
    \/ ReturnFinalState
    \/ RecursionError

Spec == Init /\ [][Next]_vars

-----------------------------------------------------------------------------
(* The cache on its own: any sequence of stores and lookups as time passes *)

CacheNames == {<<"a">>, <<"A", " ">>, <<"b">>}

CacheFocuses == {<<"x">>}

\* A record as a caller other than the research agent may build it: an author,
\* investment data, an empty initiative list
ManualData(competitor, t) ==
    ResearchData(competitor, <<"narrative">>, <<>>, Some(<<"amount">>), <<"positioning">>,
                 <<ResearchSource(<<"http3">>, <<"title">>, "news", DateTime(t.day - 1, 7), Some(<<"author">>), 100),
                   ResearchSource(<<"http4">>, <<"title">>, "press_release", DateTime(t.day - 2, 0), None, 0)>>,
                 t, 30)

CacheInputs(competitor, t) ==
    {parse_research_response(competitor, "sources", t),
     parse_research_response(competitor, "no_sources", t),
     ManualData(competitor, t)}

\* A call of research_cache.cache_research
CacheResearch ==
    \E competitor \in CacheNames : \E research_focus \in CacheFocuses :
    \E research_data \in CacheInputs(competitor, now) :
    \E io \in {"ok", "open_fail", "dump_fail"} :
      LET file == get_cache_file_path(competitor, research_focus)
          put == cache_research(cache[file], competitor, research_focus, research_data, now, io)
      IN  /\ cache' = [cache EXCEPT ![file] = put.file]
          /\ stamp' = [stamp EXCEPT ![file] = StampAfterPut(@, io, now)]
          /\ lastStore' = IF put.result
                          THEN Some([competitor |-> competitor, research_focus |-> research_focus,
                                     research_data |-> research_data, cached_at |-> now])
                          ELSE None
          /\ lastGet' = None
          /\ UNCHANGED <<now, ticks, writing, runVars, apiVars>>

\* A call of research_cache.get_cached_research
GetCachedResearch ==
    \E competitor \in CacheNames : \E research_focus \in CacheFocuses :
    \E io \in {"ok", "read_fail"} :
      LET file == get_cache_file_path(competitor, research_focus)
          got == get_cached_research(cache[file], now, io)
      IN  /\ io # "ok" => cache[file] # None
          /\ cache' = [cache EXCEPT ![file] = got.file]
          /\ stamp' = [stamp EXCEPT ![file] = StampAfterGet(@, got)]
          /\ lastGet' = Some([competitor |-> competitor, research_focus |-> research_focus,
                              io |-> io, at |-> now, result |-> got.result,
                              before |-> cache[file], after |-> got.file,
                              stored_at |-> stamp[file], since |-> lastStore])
          /\ lastStore' = None
          /\ UNCHANGED <<now, ticks, writing, runVars, apiVars>>

CacheInit ==
    /\ cache = [f \in Files(CacheNames, CacheFocuses) |-> None]
    /\ stamp = [f \in Files(CacheNames, CacheFocuses) |-> None]
    /\ writing = None
    /\ NoApi
    /\ now = DateTime(0, 0)
    /\ ticks = 0
    /\ lastStore = None
    /\ lastGet = None
    /\ state = create_initial_state(RunSession, <<>>, Focus)
    /\ checkpoint = None
    /\ node = "returned"
    /\ agent = IdleAgent
    /\ synth = IdleSynth
    /\ step = 0
    /\ final = None
    /\ faults = 0
    /\ writeKept = FALSE
    /\ hist = NoHist

CacheNext ==
    \/ Tick
    \/ CacheResearch
    \/ GetCachedResearch

CacheSpec == CacheInit /\ [][CacheNext]_vars

-----------------------------------------------------------------------------
(* The cache used for competitors whose names differ in more than case *)

\* Names that differ in a character _get_cache_file_path drops, and one apart
SubjectNames == {<<"b">>, <<"B", "!">>, <<"a">>}

\* A call of research_cache.cache_research for one of these names
SubjectStore ==
    \E competitor \in SubjectNames : \E research_focus \in CacheFocuses :
    \E research_data \in CacheInputs(competitor, now) :
    \E io \in {"ok", "open_fail", "dump_fail"} :
      LET file == get_cache_file_path(competitor, research_focus)
          put == cache_research(cache[file], competitor, research_focus, research_data, now, io)
      IN  /\ cache' = [cache EXCEPT ![file] = put.file]
          /\ stamp' = [stamp EXCEPT ![file] = StampAfterPut(@, io, now)]
          /\ lastStore' = IF put.result
                          THEN Some([competitor |-> competitor, research_focus |-> research_focus,
                                     research_data |-> research_data, cached_at |-> now])
                          ELSE None
          /\ lastGet' = None
          /\ UNCHANGED <<now, ticks, writing, runVars, apiVars>>

\* A call of research_cache.get_cached_research for one of these names
SubjectLookup ==
    \E competitor \in SubjectNames : \E research_focus \in CacheFocuses :
    \E io \in {"ok", "read_fail"} :
      LET file == get_cache_file_path(competitor, research_focus)
          got == get_cached_research(cache[file], now, io)
      IN  /\ io # "ok" => cache[file] # None
          /\ cache' = [cache EXCEPT ![file] = got.file]
          /\ stamp' = [stamp EXCEPT ![file] = StampAfterGet(@, got)]
          /\ lastGet' = Some([competitor |-> competitor, research_focus |-> research_focus,
                              io |-> io, at |-> now, result |-> got.result,
                              before |-> cache[file], after |-> got.file,
                              stored_at |-> stamp[file], since |-> lastStore])
          /\ lastStore' = None
          /\ UNCHANGED <<now, ticks, writing, runVars, apiVars>>

SubjectNext ==
    \/ Tick
    \/ SubjectStore
    \/ SubjectLookup

SubjectSpec == CacheInit /\ [][SubjectNext]_vars

-----------------------------------------------------------------------------
(* A store step by step, with lookups in between: cache_research opens the    *)
(* file for writing, which truncates it, and then writes the entry into it    *)

\* cache_research up to and including open(cache_file, 'w')
OpenForWrite ==
    /\ IF writing = None THEN TRUE ELSE writing[1].phase # "open"
    /\ \E competitor \in CacheNames : \E research_focus \in CacheFocuses :
       \E research_data \in CacheInputs(competitor, now) :
          LET file == get_cache_file_path(competitor, research_focus)
          IN  /\ writing' = Some([file |-> file, competitor |-> competitor,
                                  research_focus |-> research_focus,
                                  research_data |-> research_data, cached_at |-> now,
                                  before |-> cache[file], phase |-> "open"])
              /\ cache' = [cache EXCEPT ![file] = TornFile]
              /\ stamp' = [stamp EXCEPT ![file] = None]
    /\ lastStore' = None
    /\ lastGet' = None
    /\ UNCHANGED <<now, ticks, runVars, apiVars>>

\* json.dump writes the whole entry and the file is closed; cache_research returns True
DumpEntry ==
    /\ writing # None /\ writing[1].phase = "open"
    /\ LET w == writing[1]
       IN  /\ cache' = [cache EXCEPT ![w.file] =
                           Some(CacheEntry(w.competitor, w.research_focus, w.cached_at, w.research_data))]
           /\ stamp' = [stamp EXCEPT ![w.file] = Some(w.cached_at)]
           /\ lastStore' = Some([competitor |-> w.competitor, research_focus |-> w.research_focus,
                                 research_data |-> w.research_data, cached_at |-> w.cached_at])
           /\ writing' = Some([w EXCEPT !.phase = "closed"])
    /\ lastGet' = None
    /\ UNCHANGED <<now, ticks, runVars, apiVars>>

\* The write stops part-way: json.dump raises (cache_research returns False) or
\* the process dies; the file keeps what had been written
InterruptWrite ==
    /\ writing # None /\ writing[1].phase = "open"
    /\ writing' = Some([writing[1] EXCEPT !.phase = "interrupted"])
    /\ lastGet' = None
    /\ UNCHANGED <<cache, stamp, lastStore, now, ticks, runVars, apiVars>>

StoreNext ==
    \/ OpenForWrite
    \/ DumpEntry
    \/ InterruptWrite
    \/ GetCachedResearch

StoreSpec == CacheInit /\ [][StoreNext]_vars

-----------------------------------------------------------------------------
(* Clearing the cache: ResearchCache.clear_cache behind DELETE /cache/clear *)

\* The part of the glob pattern of clear_cache before the "*":
\* competitor.lower().replace(' ', '_') followed by "_"
clear_pattern(competitor) ==
    [i \in 1..Len(competitor) |-> IF competitor[i] = " " THEN "_" ELSE lower(competitor[i])]
        \o <<"_">>

\* Whether a file name matches the pattern prefix + "*.json" (every file of the
\* cache directory ends in ".json")
glob_match(file, prefix) ==
    /\ Len(file) > Len(prefix)
    /\ SubSeq(file, 1, Len(prefix)) = prefix

\* ResearchCache.clear_cache on the directory files; competitor is an Optional
\* string, and an empty string counts as none given.  Result: the directory
\* afterwards and the number returned.
clear_cache(files, competitor) ==
    LET matched == {f \in DOMAIN files :
                       /\ files[f] # None
                       /\ IF competitor # None /\ competitor[1] # <<>>
                          THEN glob_match(f, clear_pattern(competitor[1]))
                          ELSE TRUE}
    IN  [files |-> [f \in DOMAIN files |-> IF f \in matched THEN None ELSE files[f]],
         deleted_count |-> Cardinality(matched)]

\* DELETE /cache/clear
ClearCache ==
    \E competitor \in {None} \cup {Some(c) : c \in CacheNames} :
       LET r == clear_cache(cache, competitor)
       IN  /\ cache' = r.files
           /\ stamp' = [f \in DOMAIN stamp |-> IF r.files[f] = None THEN None ELSE stamp[f]]
           /\ response' = Some([op |-> "clear", competitor |-> competitor,
                                deleted_count |-> r.deleted_count])
           /\ lastStore' = None
           /\ lastGet' = None
           /\ UNCHANGED <<now, ticks, writing, runVars, workflow_sessions, background, parked>>

ClearNext ==
    \/ CacheResearch
    \/ ClearCache

ClearSpec == CacheInit /\ [][ClearNext]_vars

-----------------------------------------------------------------------------
(* Clearing the cache of a competitor whose name starts the name of another *)

\* "a" is the first word of "a b", and the start of "ab"
PrefixNames == {<<"a">>, <<"a", " ", "b">>, <<"a", "b">>, <<"b">>}

\* A call of research_cache.cache_research for one of these names
PrefixStore ==
    \E competitor \in PrefixNames : \E research_focus \in CacheFocuses :
    \E research_data \in CacheInputs(competitor, now) :
    \E io \in {"ok", "open_fail", "dump_fail"} :
      LET file == get_cache_file_path(competitor, research_focus)
          put == cache_research(cache[file], competitor, research_focus, research_data, now, io)
      IN  /\ cache' = [cache EXCEPT ![file] = put.file]
          /\ stamp' = [stamp EXCEPT ![file] = StampAfterPut(@, io, now)]
          /\ lastStore' = IF put.result
                          THEN Some([competitor |-> competitor, research_focus |-> research_focus,
                                     research_data |-> research_data, cached_at |-> now])
                          ELSE None
          /\ lastGet' = None
          /\ UNCHANGED <<now, ticks, writing, runVars, apiVars>>

\* DELETE /cache/clear for one of these names
PrefixClear ==
    \E competitor \in {None} \cup {Some(c) : c \in PrefixNames} :
       LET r == clear_cache(cache, competitor)
       IN  /\ cache' = r.files
           /\ stamp' = [f \in DOMAIN stamp |-> IF r.files[f] = None THEN None ELSE stamp[f]]
           /\ response' = Some([op |-> "clear", competitor |-> competitor,
                                deleted_count |-> r.deleted_count])
           /\ lastStore' = None
           /\ lastGet' = None
           /\ UNCHANGED <<now, ticks, writing, runVars, workflow_sessions, background, parked>>

PrefixInit ==
    /\ cache = [f \in Files(PrefixNames, CacheFocuses) |-> None]
    /\ stamp = [f \in Files(PrefixNames, CacheFocuses) |-> None]
    /\ writing = None
    /\ NoApi
    /\ now = DateTime(0, 0)
    /\ ticks = 0
    /\ lastStore = None
    /\ lastGet = None
    /\ state = create_initial_state(RunSession, <<>>, Focus)
    /\ checkpoint = None
    /\ node = "returned"
    /\ agent = IdleAgent
    /\ synth = IdleSynth
    /\ step = 0
    /\ final = None
    /\ faults = 0
    /\ writeKept = FALSE
    /\ hist = NoHist

PrefixNext ==
    \/ PrefixStore
    \/ PrefixClear

PrefixSpec == PrefixInit /\ [][PrefixNext]_vars

-----------------------------------------------------------------------------
(* Deriving cache keys while the cache fills *)

\* Competitor names that differ in case, in trailing spaces and otherwise
KeySubjects == {<<"A">>, <<"a">>, <<"A", " ">>, <<"a", " ", " ">>, <<"b">>, <<"B", "!">>, <<"a", " ", "b">>}

\* A research focus longer than FocusPrefixLen, ending in the character last
LongFocus(last) == [i \in 1..FocusPrefixLen |-> "a"] \o <<last>>

\* Focuses that agree on their first FocusPrefixLen characters, that differ
\* in case, and that differ within the prefix
KeyTopics == {LongFocus("b"), LongFocus("c"), Prefix(LongFocus("b"), FocusPrefixLen),
              <<"a", "b">>, <<"A", "B">>, <<"a", "c">>}

\* A call of _get_cache_file_path
DeriveKey ==
    /\ \E competitor \in KeySubjects : \E research_focus \in KeyTopics :
          response' = Some([op |-> "key", competitor |-> competitor,
                            research_focus |-> research_focus,
                            key |-> get_cache_file_path(competitor, research_focus)])
    /\ UNCHANGED <<cacheVars, runVars, workflow_sessions, background, parked>>

KeyNext ==
    \/ CacheResearch
    \/ DeriveKey

KeySpec == CacheInit /\ [][KeyNext]_vars

-----------------------------------------------------------------------------
(* Sweeping the cache: ResearchCache.cleanup_expired_cache behind POST /cache/cleanup *)

\* cleanup_expired_cache removing an entry from the moment of its expiry on
cleanup_expired_cache_at_expiry(files, t, unreadable) ==
    LET expired == {f \in DOMAIN files :
                       /\ files[f] # None /\ f \notin unreadable /\ files[f][1].complete
                       /\ ~Later(PlusDays(fromisoformat(files[f][1].cached_at), max_research_age_days), t)}
    IN  [files |-> [f \in DOMAIN files |-> IF f \in expired THEN None ELSE files[f]],
         deleted_count |-> Cardinality(expired)]

\* ResearchCache.cleanup_expired_cache on the directory files at time t.
\* unreadable: the files whose open or read raises; such a file, like one that
\* does not parse, is skipped by the handler inside the loop.  Result: the
\* directory afterwards and the number returned.
cleanup_expired_cache(files, t, unreadable) ==
    LET expired == {f \in DOMAIN files :
                       /\ files[f] # None /\ f \notin unreadable /\ files[f][1].complete
                       /\ IsExpired(files[f][1], t)}
    IN  [files |-> [f \in DOMAIN files |-> IF f \in expired THEN None ELSE files[f]],
         deleted_count |-> Cardinality(expired)]

\* POST /cache/cleanup
CleanupExpiredCache ==
    \E unreadable \in SUBSET {f \in DOMAIN cache : cache[f] # None} :
       LET r == cleanup_expired_cache(cache, now, unreadable)
       IN  /\ cache' = r.files
           /\ stamp' = [f \in DOMAIN stamp |-> IF r.files[f] = None THEN None ELSE stamp[f]]
           /\ response' = Some([op |-> "cleanup", unreadable |-> unreadable,
                                deleted_count |-> r.deleted_count])
           /\ lastStore' = None
           /\ lastGet' = None
           /\ UNCHANGED <<now, ticks, writing, runVars, workflow_sessions, background, parked>>

SweepNext ==
    \/ Tick
    \/ CacheResearch
    \/ CleanupExpiredCache

SweepSpec == CacheInit /\ [][SweepNext]_vars

-----------------------------------------------------------------------------
(* Cache calls of several sessions on the one event loop: a call that finds   *)
(* an expired entry reads the file, compares the times and then unlinks it    *)

\* The event loop running any call, also while another one is under way
may_switch_during_call(call) == TRUE

\* Whether the event loop can run another cache call: get_cached_research,
\* cache_research and cleanup_expired_cache are plain functions that await
\* nothing, so a call that has begun runs to its end first.
may_switch(call) == IF call = None THEN TRUE ELSE call[1].phase = "done"

\* The competitors that the sessions research
RaceNames == {<<"a">>, <<"b">>}

\* A call of cache_research by a session
RaceStore ==
    /\ may_switch(writing)
    /\ \E competitor \in RaceNames : \E research_focus \in CacheFocuses :
      \E research_data \in CacheInputs(competitor, now) :
      \E io \in {"ok", "open_fail", "dump_fail"} :
        LET file == get_cache_file_path(competitor, research_focus)
            put == cache_research(cache[file], competitor, research_focus, research_data, now, io)
        IN  /\ cache' = [cache EXCEPT ![file] = put.file]
            /\ stamp' = [stamp EXCEPT ![file] = StampAfterPut(@, io, now)]
            /\ lastStore' = IF put.result
                            THEN Some([competitor |-> competitor, research_focus |-> research_focus,
                                       research_data |-> research_data, cached_at |-> now])
                            ELSE None
            /\ lastGet' = None
            /\ UNCHANGED <<now, ticks, writing, runVars, apiVars>>

\* get_cached_research, or the loop body of cleanup_expired_cache, up to the
\* comparison with the expiry time: the file was read and its entry is expired
ExpiredRead ==
    /\ may_switch(writing)
    /\ \E by \in {"lookup", "cleanup"} : \E file \in DOMAIN cache :
          /\ cache[file] # None
          /\ IF cache[file][1].complete THEN IsExpired(cache[file][1], now) ELSE FALSE
          /\ writing' = Some([file |-> file, by |-> by, read |-> cache[file], phase |-> "unlink"])
    /\ UNCHANGED <<cache, stamp, lastStore, lastGet, now, ticks, runVars, apiVars>>

\* cache_file.unlink() of that call
ExpiredUnlink ==
    /\ writing # None
    /\ IF writing = None THEN FALSE ELSE writing[1].phase = "unlink"
    /\ cache' = [cache EXCEPT ![writing[1].file] = None]
    /\ stamp' = [stamp EXCEPT ![writing[1].file] = None]
    /\ writing' = Some([writing[1] EXCEPT !.phase = "done"])
    /\ UNCHANGED <<lastStore, lastGet, now, ticks, runVars, apiVars>>

RaceNext ==
    \/ Tick
    \/ RaceStore
    \/ ExpiredRead
    \/ ExpiredUnlink

RaceSpec == CacheInit /\ [][RaceNext]_vars

-----------------------------------------------------------------------------
(* backend/api/main.py: the endpoints and the background task, around one run *)

\* settings.tcs_competitors, a list of names that is not empty (eight by
\* default); the model keeps MaxTargets of them, written in its alphabet
tcs_competitors == [k \in 1..MaxTargets |-> <<"b">> \o [j \in 1..k |-> "1"]]

\* The session ids uuid4 hands out, and one that was never handed out
SessionIds == {"s1"}

UnknownSession == "s0"

\* ResearchRequest: competitors is an Optional list
ResearchRequest(competitors, max_age_days) ==
    [competitors |-> competitors, research_focus |-> Focus, max_age_days |-> max_age_days]

\* What a client sends to /research/start
Requests ==
    {ResearchRequest(c, d) :
        c \in {None, Some(<<>>)} \cup {Some(TargetList(n)) : n \in 1..MaxTargets},
        d \in {0, 1, 365, 366}}

\* start_research accepting a max_age_days of 0
start_research_from_zero(request, session_id) ==
    LET target_competitors == IF request.competitors # None /\ request.competitors[1] # <<>>
                              THEN request.competitors[1] ELSE tcs_competitors
    IN  IF target_competitors = <<>> \/ request.max_age_days < 0 \/ request.max_age_days > 365
        THEN [code |-> 500, task |-> None, session |-> None]
        ELSE [code |-> 200,
              task |-> Some([session_id |-> session_id, target_competitors |-> target_competitors,
                             research_focus |-> request.research_focus,
                             max_age_days |-> request.max_age_days, pc |-> "queued"]),
              session |-> Some([status |-> "pending", target_competitors |-> target_competitors,
                                research_focus |-> request.research_focus, final_state |-> None])]

\* start_research: the status code of the response, the task handed to
\* background_tasks and the registry entry written.  The HTTPException(400) of
\* the two checks is raised inside the try block, whose handler for Exception
\* turns it into a 500.
start_research(request, session_id) ==
    LET target_competitors == IF request.competitors # None /\ request.competitors[1] # <<>>
                              THEN request.competitors[1] ELSE tcs_competitors
    IN  IF target_competitors = <<>> \/ request.max_age_days < 1 \/ request.max_age_days > 365
        THEN [code |-> 500, task |-> None, session |-> None]
        ELSE [code |-> 200,
              task |-> Some([session_id |-> session_id, target_competitors |-> target_competitors,
                             research_focus |-> request.research_focus,
                             max_age_days |-> request.max_age_days, pc |-> "queued"]),
              session |-> Some([status |-> "pending", target_competitors |-> target_competitors,
                                research_focus |-> request.research_focus, final_state |-> None])]

\* POST /research/start.  One session is followed: no second one is started
\* once a task was queued.
StartResearch ==
    /\ DOMAIN workflow_sessions = {}
    /\ background = <<>> /\ final = None
    /\ \E request \in Requests : \E session_id \in SessionIds :
          LET r == start_research(request, session_id)
          IN  /\ workflow_sessions' = IF r.session = None THEN workflow_sessions
                                      ELSE (session_id :> r.session[1]) @@ workflow_sessions
              /\ background' = background \o r.task
              /\ response' = Some([op |-> "start", session_id |-> session_id, request |-> request,
                                   code |-> r.code, status |-> "pending", report |-> FALSE])
    /\ UNCHANGED <<cacheVars, runVars, parked>>

\* execute_research_workflow up to the call of ainvoke: the registry entry
\* becomes in_progress, execute_workflow creates the initial state and the
\* graph is entered.  The checkpointer has nothing for the thread yet.
TaskBegin ==
    /\ background # <<>>
    /\ background[1].pc = "queued"
    /\ workflow_sessions' = IF background[1].session_id \in DOMAIN workflow_sessions
                            THEN [workflow_sessions EXCEPT ![background[1].session_id].status = "in_progress"]
                            ELSE workflow_sessions
    /\ background' = [background EXCEPT ![1].pc = "running"]
    /\ state' = create_initial_state(background[1].session_id, background[1].target_competitors, background[1].research_focus)
    /\ node' = "deep_research"
    /\ agent' = IdleAgent
    /\ step' = 0
    /\ final' = None
    /\ hist' = NoHist
    /\ checkpoint' = None
    /\ UNCHANGED <<cacheVars, faults, writeKept, response, parked, synth>>

\* The checkpointer saves the input of ainvoke for the thread before the first
\* node runs.  Whether and when the runtime does so is its own business: a
\* run may also reach the end of its first superstep with no checkpoint saved
\* before.
PutInputCheckpoint ==
    /\ background # <<>>
    /\ background[1].pc = "running"
    /\ checkpoint = None
    /\ node = "deep_research" /\ agent.pc = "idle" /\ step = 0
    /\ checkpoint' = Some(state)
    /\ UNCHANGED <<cacheVars, apiVars, state, node, agent, synth, step, final, faults, writeKept, hist>>

\* execute_research_workflow replacing the registry entry whether or not the
\* session still has one
finish_task_reinserts(sessions, task, final_state) ==
    (task.session_id :> [status |-> final_state[1].workflow_status,
                         target_competitors |-> task.target_competitors,
                         research_focus |-> task.research_focus,
                         final_state |-> final_state]) @@ sessions

\* execute_research_workflow after execute_workflow returned: the registry
\* entry is replaced by one with the final status and the final state.  The
\* new entry takes created_at from the old one: without an old one the
\* lookup raises KeyError, and the handler writes only to an entry that exists.
finish_task(sessions, task, final_state) ==
    IF task.session_id \in DOMAIN sessions
    THEN [sessions EXCEPT ![task.session_id] =
             [status |-> final_state[1].workflow_status,
              target_competitors |-> task.target_competitors,
              research_focus |-> task.research_focus,
              final_state |-> final_state]]
    ELSE sessions

TaskFinish ==
    /\ background # <<>>
    /\ background[1].pc = "running"
    /\ node = "returned" /\ final # None
    /\ workflow_sessions' = finish_task(workflow_sessions, background[1], final)
    /\ background' = Tail(background)
    /\ UNCHANGED <<cacheVars, runVars, response, parked>>

\* The graph of the session has been entered, so that the checkpointer holds a
\* state for its thread
HasCheckpoint == checkpoint # None

\* get_workflow_state reading the state the running node is working on
get_workflow_state_live(session_id) ==
    IF session_id \in DOMAIN workflow_sessions /\ HasCheckpoint THEN Some(state) ELSE None

\* get_workflow_state: the values of the last checkpoint of the thread (empty
\* when there is none)
get_workflow_state(session_id) ==
    IF session_id \in DOMAIN workflow_sessions /\ HasCheckpoint THEN checkpoint ELSE None

\* get_research_status: the status code and the status shown.  The
\* HTTPException(404) is raised inside the try block, whose only handler is
\* the one for Exception, which answers 500.
get_research_status(session_id) ==
    IF session_id \notin DOMAIN workflow_sessions
    THEN [code |-> 500, status |-> "none", agents_state |-> None]
    ELSE IF get_workflow_state(session_id) # None
    THEN [code |-> 200, status |-> get_workflow_state(session_id)[1].workflow_status,
          agents_state |-> Some(get_workflow_state(session_id)[1].agents_state)]
    ELSE [code |-> 200, status |-> workflow_sessions[session_id].status, agents_state |-> None]

\* GET /research/{session_id}/status
GetResearchStatus ==
    /\ \E session_id \in SessionIds \cup {UnknownSession} :
          response' = Some([op |-> "poll", session_id |-> session_id, request |-> None,
                            code |-> get_research_status(session_id).code,
                            status |-> get_research_status(session_id).status,
                            agents_state |-> get_research_status(session_id).agents_state,
                            report |-> FALSE])
    /\ UNCHANGED <<cacheVars, runVars, workflow_sessions, background, parked>>

\* get_executive_report: the status code (here HTTPException is re-raised)
get_executive_report(session_id) ==
    IF session_id \notin DOMAIN workflow_sessions THEN 404
    ELSE IF workflow_sessions[session_id].status # "completed" THEN 400
    ELSE IF workflow_sessions[session_id].final_state = None THEN 404
    ELSE IF workflow_sessions[session_id].final_state[1].executive_report = None THEN 404
    ELSE 200

\* Whether the state of the session that a poll reads holds a report
report_generated(session_id) ==
    /\ get_workflow_state(session_id) # None
    /\ get_workflow_state(session_id)[1].executive_report # None

\* GET /research/{session_id}/report.  The response also records what a poll
\* at the same moment shows: the status, and whether the report exists.
GetExecutiveReport ==
    /\ \E session_id \in SessionIds \cup {UnknownSession} :
          response' = Some([op |-> "report", session_id |-> session_id, request |-> None,
                            code |-> get_executive_report(session_id),
                            status |-> get_research_status(session_id).status,
                            report |-> report_generated(session_id)])
    /\ UNCHANGED <<cacheVars, runVars, workflow_sessions, background, parked>>

ApiInit ==
    /\ NoApi
    /\ cache = [f \in Files({TargetName(k) : k \in 1..MaxTargets} \cup
                            {tcs_competitors[k] : k \in DOMAIN tcs_competitors}, {Focus}) |-> None]
    /\ stamp = [f \in DOMAIN cache |-> None]
    /\ writing = None
    /\ now = DateTime(0, 0)
    /\ ticks = 0
    /\ lastStore = None
    /\ lastGet = None
    /\ state = create_initial_state(RunSession, <<>>, Focus)
    /\ checkpoint = None
    /\ node = "returned"
    /\ agent = IdleAgent
    /\ synth = IdleSynth
    /\ step = 0
    /\ final = None
    /\ faults = MaxFaults
    /\ writeKept \in BOOLEAN
    /\ hist = NoHist

ApiNext ==
    \/ StartResearch
    \/ TaskBegin
    \/ PutInputCheckpoint
    \/ DeepResearchEnter
    \/ ResearchCompetitor
    \/ ResearchFinish
    \/ ValidateResearchNode
    \/ SynthesizerNode
    \/ FinalizeNode
    \/ ReturnFinalState
    \/ RecursionError
    \/ TaskFinish
    \/ GetResearchStatus
    \/ GetExecutiveReport

ApiSpec == ApiInit /\ [][ApiNext]_vars

\* delete_research_session: the status code and the registry afterwards
delete_research_session(sessions, session_id) ==
    IF session_id \notin DOMAIN sessions
    THEN [code |-> 404, sessions |-> sessions]
    ELSE [code |-> 200, sessions |-> [s \in DOMAIN sessions \ {session_id} |-> sessions[s]]]

\* DELETE /research/{session_id}.  The response also records the status
\* that the removed entry had.
DeleteResearchSession ==
    /\ \E session_id \in SessionIds \cup {UnknownSession} :
          LET r == delete_research_session(workflow_sessions, session_id)
          IN  /\ workflow_sessions' = r.sessions
              /\ response' = Some([op |-> "delete", session_id |-> session_id, request |-> None,
                                   code |-> r.code,
                                   status |-> IF r.code = 200 THEN workflow_sessions[session_id].status
                                              ELSE "none",
                                   report |-> FALSE])
    /\ UNCHANGED <<cacheVars, runVars, background, parked>>

\* The API with the delete endpoint
DeleteNext ==
    \/ StartResearch
    \/ TaskBegin
    \/ PutInputCheckpoint
    \/ DeepResearchEnter
    \/ ResearchCompetitor
    \/ ResearchFinish
    \/ ValidateResearchNode
    \/ SynthesizerNode
    \/ FinalizeNode
    \/ ReturnFinalState
    \/ RecursionError
    \/ TaskFinish
    \/ GetResearchStatus
    \/ GetExecutiveReport
    \/ DeleteResearchSession

DeleteSpec == ApiInit /\ [][DeleteNext]_vars

-----------------------------------------------------------------------------
(* The validation node on its own: any artifact collection for 1..MaxValidateTargets targets *)

MaxValidateTargets == 8

\* An artifact with a given confidence score
Scored(competitor, score) ==
    [parse_research_response(competitor, "no_sources", DateTime(0, 0)) EXCEPT !.confidence_score = score]

ValidateInit ==
    /\ \E n \in 1..MaxValidateTargets : \E m \in 0..n : \E scores \in [1..m -> {49, 50}] :
          state = [create_initial_state(RunSession, TargetList(n), Focus) EXCEPT
                      !.research_data = [k \in 1..m |-> Scored(TargetName(k), scores[k])]]
    /\ node = "validate_research"
    /\ agent = IdleAgent
    /\ synth = IdleSynth
    /\ step = 1
    /\ final = None
    /\ faults = 0
    /\ writeKept \in BOOLEAN
    /\ hist = NoHist
    /\ cache = [f \in Files({TargetName(k) : k \in 1..MaxValidateTargets}, {Focus}) |-> None]
    /\ stamp = [f \in DOMAIN cache |-> None]
    /\ writing = None
    /\ NoApi
    /\ now = DateTime(0, 0)
    /\ ticks = 0
    /\ lastStore = None
    /\ lastGet = None
    /\ checkpoint = Some(state)

ValidateNext == ValidateResearchNode

ValidateSpec == ValidateInit /\ [][ValidateNext]_vars

-----------------------------------------------------------------------------
(* The synthesizer step by step: SynthesizerAgent.execute and its four substeps *)

\* The substeps of execute in the order it calls them, named after the field
\* of the report each one fills
Substeps == <<"executive_summary", "key_insights", "market_opportunities", "strategic_recommendations">>

\* What a substep returns when its call and its parsing succeed
SubstepContent ==
    [executive_summary |-> <<"summary">>,
     key_insights |-> <<[title |-> <<"Strategic Insight">>, priority |-> "medium"]>>,
     market_opportunities |-> <<<<"opportunity">>>>,
     strategic_recommendations |-> <<<<"recommendation">>>>]

\* What the handler of a substep returns
SubstepPlaceholder ==
    [executive_summary |-> <<"Executive summary generation failed. Manual review required.">>,
     key_insights |-> <<[title |-> <<"Competitive Analysis Required">>, priority |-> "high"]>>,
     market_opportunities |-> <<<<"Market opportunity analysis failed - manual review required">>>>,
     strategic_recommendations |-> <<<<"Strategic recommendations generation failed - manual review required">>>>]

\* A substep whose handler returns an empty value
synthesis_substep_empty(name, ok) ==
    IF ok THEN SubstepContent[name] ELSE <<>>

\* _generate_executive_summary, _extract_key_insights,
\* _identify_market_opportunities, _generate_strategic_recommendations: the
\* whole body of each is a try block.  ok = FALSE: something in it raises.
synthesis_substep(name, ok) ==
    IF ok THEN SubstepContent[name] ELSE SubstepPlaceholder[name]

\* The ExecutiveReport that execute compiles from the results of the substeps
compile_report(research_data, t, results) ==
    [f \in DOMAIN SubstepContent |-> results[CHOOSE k \in 1..Len(Substeps) : Substeps[k] = f]]
        @@ ExecutiveReport(research_data, t)

\* execute is entered.  Without research data it raises inside its try block
\* and the node returns the failed state; otherwise the substeps begin.
SynthesisEnter ==
    /\ node = "synthesizer" /\ synth.pc = "idle"
    /\ IF state.research_data = <<>>
       THEN /\ state' = synthesizer_node(state, now, "ok")
            /\ node' = "finalize"
            /\ step' = step + 1
            /\ hist' = [hist EXCEPT !.synthesis = @ + 1]
            /\ checkpoint' = Some(state')
            /\ UNCHANGED synth
       ELSE /\ state' = [state EXCEPT !.agents_state.synthesizer = AgentState("in_progress", 0, @.error_message)]
            /\ synth' = [IdleSynth EXCEPT !.pc = "run"]
            /\ UNCHANGED <<node, step, hist, checkpoint>>
    /\ UNCHANGED <<cacheVars, apiVars, agent, final, faults, writeKept>>

\* The next substep of execute runs
SynthesisSubstep ==
    /\ node = "synthesizer" /\ synth.pc = "run"
    /\ Len(synth.calls) < Len(Substeps)
    /\ \E ok \in BOOLEAN :
          LET name == Substeps[Len(synth.calls) + 1]
          IN  /\ state' = [state EXCEPT !.agents_state.synthesizer.progress_percentage =
                                            20 * (Len(synth.calls) + 1)]
              /\ synth' = [synth EXCEPT !.calls = Append(@, name),
                                        !.failed = IF ok THEN @ ELSE @ \cup {name},
                                        !.results = Append(@, synthesis_substep(name, ok))]
    /\ UNCHANGED <<cacheVars, apiVars, checkpoint, node, agent, step, final, faults, writeKept, hist>>

\* execute compiles the report and the node returns
SynthesisCompile ==
    /\ node = "synthesizer" /\ synth.pc = "run"
    /\ Len(synth.calls) = Len(Substeps)
    /\ state' = [state EXCEPT !.executive_report = Some(compile_report(state.research_data, now, synth.results)),
                              !.agents_state.synthesizer = AgentState("completed", 100, None),
                              !.workflow_status = "completed"]
    /\ synth' = [synth EXCEPT !.pc = "done"]
    /\ node' = "finalize"
    /\ step' = step + 1
    /\ hist' = [hist EXCEPT !.synthesis = @ + 1]
    /\ checkpoint' = Some(state')
    /\ UNCHANGED <<cacheVars, apiVars, agent, final, faults, writeKept>>

\* The states in which the graph enters the synthesizer: the validation node
\* has returned and did not decide "fail"
SynthInit ==
    /\ \E n \in 1..MaxTargets : \E m \in 0..n : \E scores \in [1..m -> {49, 50}] :
          LET st == [create_initial_state(RunSession, TargetList(n), Focus) EXCEPT
                        !.research_data = [k \in 1..m |-> Scored(TargetName(k), scores[k])],
                        !.agents_state.deep_research = AgentState("completed", 100, None)]
          IN  /\ validate_research_node(st, FALSE).validation_result # Some("fail")
              /\ state = validate_research_node(st, FALSE)
    /\ checkpoint = Some(state)
    /\ node = "synthesizer"
    /\ agent = IdleAgent
    /\ synth = IdleSynth
    /\ step = 2
    /\ final = None
    /\ faults = 0
    /\ writeKept = FALSE
    /\ hist = [NoHist EXCEPT !.research = 1]
    /\ cache = [f \in Files({TargetName(k) : k \in 1..MaxTargets}, {Focus}) |-> None]
    /\ stamp = [f \in DOMAIN cache |-> None]
    /\ writing = None
    /\ NoApi
    /\ now = DateTime(0, 0)
    /\ ticks = 0
    /\ lastStore = None
    /\ lastGet = None

SynthNext ==
    \/ SynthesisEnter
    \/ SynthesisSubstep
    \/ SynthesisCompile
    \/ FinalizeNode
    \/ ReturnFinalState

SynthSpec == SynthInit /\ [][SynthNext]_vars

-----------------------------------------------------------------------------
(* Two sessions on one event loop: each background task calls
   execute_workflow with its own session id, which builds its own state and
   runs the graph under its own thread id; the tasks interleave at their
   awaits and use the one research_cache *)

PairSessionIds == <<"s1", "s2">>

\* The run of a session: what execute_workflow and the checkpointer hold for its
\* thread id
RunRecord(session_id, s, saved, at, a, sy, n, f, h) ==
    [session_id |-> session_id, state |-> s, checkpoint |-> saved, node |-> at,
     agent |-> a, synth |-> sy, step |-> n, final |-> f, hist |-> h]

\* The session id of the run that has the event loop
running_session ==
    IF parked = None THEN PairSessionIds[1]
    ELSE IF parked[1].session_id = PairSessionIds[1] THEN PairSessionIds[2] ELSE PairSessionIds[1]

CurrentRun == RunRecord(running_session, state, checkpoint, node, agent, synth, step, final, hist)

\* execute_workflow for the second session: create_initial_state builds its
\* state, and its task waits for the event loop
BeginSecond ==
    /\ parked = None
    /\ \E n \in 1..MaxTargets :
          LET s == create_initial_state(PairSessionIds[2], TargetList(n), Focus)
          IN  parked' = Some(RunRecord(PairSessionIds[2], s, Some(s), "deep_research",
                                       IdleAgent, IdleSynth, 0, None, NoHist))
    /\ UNCHANGED <<cacheVars, runVars, workflow_sessions, background, response>>

\* The running task awaits and the event loop resumes the other one
SwitchTask ==
    /\ parked # None
    /\ parked' = Some(CurrentRun)
    /\ state' = parked[1].state
    /\ checkpoint' = parked[1].checkpoint
    /\ node' = parked[1].node
    /\ agent' = parked[1].agent
    /\ synth' = parked[1].synth
    /\ step' = parked[1].step
    /\ final' = parked[1].final
    /\ hist' = parked[1].hist
    /\ UNCHANGED <<cacheVars, faults, writeKept, workflow_sessions, background, response>>

PairInit ==
    /\ state = create_initial_state(PairSessionIds[1], TargetList(1), Focus)
    /\ checkpoint = Some(state)
    /\ node = "deep_research"
    /\ agent = IdleAgent
    /\ synth = IdleSynth
    /\ step = 0
    /\ final = None
    /\ faults = MaxFaults
    /\ writeKept \in BOOLEAN
    /\ hist = NoHist
    /\ cache = [f \in Files({TargetName(k) : k \in 1..MaxTargets}, {Focus}) |-> None]
    /\ stamp = [f \in DOMAIN cache |-> None]
    /\ writing = None
    /\ NoApi
    /\ now = DateTime(0, 0)
    /\ ticks = 0
    /\ lastStore = None
    /\ lastGet = None

PairNext ==
    \/ BeginSecond
    \/ SwitchTask
    \/ DeepResearchEnter
    \/ ResearchCompetitor
    \/ ResearchFinish
    \/ ValidateResearchNode
    \/ SynthesizerNode
    \/ FinalizeNode
    \/ ReturnFinalState
    \/ RecursionError

PairSpec == PairInit /\ [][PairNext]_vars

-----------------------------------------------------------------------------
(* One research pass step by step: the lookup, the primary call, the fallback
   call and the store of each loop iteration are steps of their own, and the
   calls made for the subject in work are logged *)

\* What a call of the extraction collaborator does: it raises, or it returns
\* content that parses into a record with sources or into the minimal record
CallOutcomes == {"raise", "sources", "minimal"}

\* execute after the lookup always going on to _research_competitor
after_lookup_always_research(cached_data) == "primary"

\* execute after get_cached_research: with cached data the iteration is over,
\* without it _research_competitor is called
after_lookup(cached_data) == IF cached_data # None THEN "loop" ELSE "primary"

\* _research_competitor calling the chat completion whatever the responses API did
after_primary_always_fallback(outcome) == "fallback"

\* _research_competitor after client.responses.create: an exception leads into
\* the handler that calls the chat completion, a response is parsed and returned
after_primary(outcome) == IF outcome = "raise" THEN "fallback" ELSE "store"

\* _research_competitor after client.chat.completions.create: an exception
\* makes it return None, which ends the iteration
after_fallback(outcome) == IF outcome = "raise" THEN "loop" ELSE "store"

Logged(h, call) == [h EXCEPT !.calls = Append(@, call)]

\* The iteration up to and including research_cache.get_cached_research
CheckCache ==
    /\ InResearchLoop
    /\ \E ioR \in {"ok", "read_fail"} :
          LET competitor == state.target_competitors[agent.i]
              file == get_cache_file_path(competitor, state.research_focus)
              progress == ((agent.i - 1) * 80) \div Len(state.target_competitors)
              got == get_cached_research(cache[file], now, ioR)
              hit == got.result # None
          IN  /\ ioR # "ok" => cache[file] # None /\ faults < MaxFaults
              /\ faults' = IF ioR = "ok" THEN faults ELSE faults + 1
              /\ state' = [state EXCEPT !.agents_state.deep_research.progress_percentage = progress]
              /\ cache' = [cache EXCEPT ![file] = got.file]
              /\ stamp' = [stamp EXCEPT ![file] = StampAfterGet(@, got)]
              /\ agent' = [agent EXCEPT !.pc = after_lookup(got.result),
                                        !.i = IF after_lookup(got.result) = "loop" THEN @ + 1 ELSE @,
                                        !.research_results = @ \o got.result]
              /\ hist' = [hist EXCEPT !.subject = agent.i,
                                      !.calls = <<IF hit THEN "hit" ELSE "miss">>,
                                      !.failed = IF ioR = "ok" THEN @ ELSE @ \cup {"read"}]
    /\ UNCHANGED <<now, ticks, lastStore, lastGet, writing, apiVars, checkpoint, node, step, final, writeKept, synth>>

\* _research_competitor: the call of the responses API with what follows it
\* without another call; execute appends a record that came back
PrimaryCall ==
    /\ node = "deep_research" /\ agent.pc = "primary"
    /\ \E outcome \in CallOutcomes :
          LET competitor == state.target_competitors[agent.i]
          IN  /\ agent' = [agent EXCEPT !.pc = after_primary(outcome),
                                        !.research_results =
                                            IF outcome = "raise" THEN @
                                            ELSE Append(@, parse_research_response(competitor, outcome, now))]
              /\ hist' = Logged(hist, IF outcome = "raise" THEN "primary_raise" ELSE "primary_ok")
    /\ UNCHANGED <<cacheVars, apiVars, state, checkpoint, node, step, final, faults, writeKept, synth>>

\* _research_competitor's handler: the call of the chat completion; execute
\* appends a record that came back and goes on to the next subject otherwise
FallbackCall ==
    /\ node = "deep_research" /\ agent.pc = "fallback"
    /\ \E outcome \in CallOutcomes :
          LET competitor == state.target_competitors[agent.i]
          IN  /\ agent' = [agent EXCEPT !.pc = after_fallback(outcome),
                                        !.i = IF after_fallback(outcome) = "loop" THEN @ + 1 ELSE @,
                                        !.research_results =
                                            IF outcome = "raise" THEN @
                                            ELSE Append(@, parse_research_response(competitor, outcome, now))]
              /\ hist' = Logged(hist, IF outcome = "raise" THEN "fallback_raise" ELSE "fallback_ok")
    /\ UNCHANGED <<cacheVars, apiVars, state, checkpoint, node, step, final, faults, writeKept, synth>>

\* execute storing the record it has just appended
StoreArtifact ==
    /\ node = "deep_research" /\ agent.pc = "store"
    /\ \E ioW \in {"ok", "open_fail", "dump_fail"} :
          LET competitor == state.target_competitors[agent.i]
              file == get_cache_file_path(competitor, state.research_focus)
              competitor_data == agent.research_results[Len(agent.research_results)]
              put == cache_research(cache[file], competitor, state.research_focus, competitor_data, now, ioW)
          IN  /\ ioW # "ok" => faults < MaxFaults
              /\ faults' = IF ioW = "ok" THEN faults ELSE faults + 1
              /\ cache' = [cache EXCEPT ![file] = put.file]
              /\ stamp' = [stamp EXCEPT ![file] = StampAfterPut(@, ioW, now)]
              /\ agent' = [agent EXCEPT !.pc = "loop", !.i = @ + 1]
              /\ hist' = [Logged(hist, "store") EXCEPT !.failed = IF ioW = "ok" THEN @ ELSE @ \cup {"write"}]
    /\ UNCHANGED <<now, ticks, lastStore, lastGet, writing, apiVars, state, checkpoint, node, step, final, writeKept, synth>>

PassInit ==
    /\ \E n \in 1..MaxTargets : state = create_initial_state(RunSession, TargetList(n), Focus)
    /\ checkpoint = Some(state)
    /\ node = "deep_research"
    /\ agent = IdleAgent
    /\ synth = IdleSynth
    /\ step = 0
    /\ final = None
    /\ faults = 0
    /\ writeKept = FALSE
    /\ hist = [research |-> 0, synthesis |-> 0, retry_seen |-> FALSE, forced |-> FALSE,
               subject |-> 0, calls |-> <<>>, failed |-> {}]
    /\ \E old \in SUBSET {TargetName(k) : k \in 1..MaxTargets} :
          cache = [f \in Files({TargetName(k) : k \in 1..MaxTargets}, {Focus}) |->
                      IF \E c \in old : get_cache_file_path(c, Focus) = f
                      THEN EarlierEntry(CHOOSE c \in old : get_cache_file_path(c, Focus) = f)
                      ELSE None]
    /\ stamp = [f \in DOMAIN cache |-> IF cache[f] = None THEN None ELSE Some(DateTime(0, 0))]
    /\ writing = None
    /\ NoApi
    /\ now = DateTime(0, 0)
    /\ ticks = 0
    /\ lastStore = None
    /\ lastGet = None

PassNext ==
    \/ DaysPass
    \/ DeepResearchEnter
    \/ CheckCache
    \/ PrimaryCall
    \/ FallbackCall
    \/ StoreArtifact
    \/ ResearchFinish

PassSpec == PassInit /\ [][PassNext]_vars

-----------------------------------------------------------------------------
(* Research passes step by step with the validation between them: a "retry"  *)
(* decision sends the run through the research loop again                    *)

RetryNext ==
    \/ DeepResearchEnter
    \/ CheckCache
    \/ PrimaryCall
    \/ FallbackCall
    \/ StoreArtifact
    \/ ResearchRaise
    \/ ResearchFinish
    \/ ValidateResearchNode

RetrySpec == PassInit /\ [][RetryNext]_vars

-----------------------------------------------------------------------------
(* create_initial_state on its own: called with any session id, target list
   and research focus *)

CreateSessionIds == {"s0", "s1", "test-session-123", "error-test"}

CreateNames == {TargetName(k) : k \in 1..MaxTargets} \cup CacheNames

\* The target lists of the calls: any list of up to MaxTargets names, the
\* empty list and lists that name a subject twice included
CreateTargetLists == UNION {[1..n -> CreateNames] : n \in 0..MaxTargets}

CreateFocuses == {Focus, DefaultResearchFocus}

\* A call of create_initial_state; the state it returns becomes the state of
\* the run
CreateInitialState ==
    /\ \E session_id \in CreateSessionIds : \E target_competitors \in CreateTargetLists :
       \E research_focus \in CreateFocuses :
          /\ state' = create_initial_state(session_id, target_competitors, research_focus)
          /\ response' = Some([op |-> "create", session_id |-> session_id,
                               target_competitors |-> target_competitors,
                               research_focus |-> research_focus])
    /\ checkpoint' = None
    /\ UNCHANGED <<cacheVars, workflow_sessions, background, parked, node, agent, synth, step, final, faults, writeKept, hist>>

CreateNext == CreateInitialState

CreateSpec == CacheInit /\ [][CreateNext]_vars

-----------------------------------------------------------------------------
(* Properties *)

Terminal == {"completed", "failed"}

AtNodeBoundary == agent.pc = "idle"

StepExceptionMessages ==
    {"Deep research failed", "Deep research agent failed", "Validation error",
     "Synthesizer agent failed", "Synthesis failed"}

HasMessage(st, msgs) == \E i \in 1..Len(st.error_messages) : st.error_messages[i] \in msgs

\* C1: the Research step runs at most twice in a run and retry_count never
\* exceeds 1.
C1_SingleRetryBound ==
    /\ hist.research <= 2
    /\ state.retry_count <= 1

\* How far a run has got: supersteps first, then the position inside the
\* research loop, then the return of execute_workflow.
Progress ==
    step * (MaxTargets + 3)
      + (IF agent.pc = "loop" THEN agent.i ELSE 0)
      + (IF node = "END" THEN 1 ELSE IF node = "returned" THEN 2 ELSE 0)

\* A step of the run can be taken (an iteration of the research loop can
\* always be taken with no injected failure once the loop has a competitor left).
StepDue ==
    \/ InResearchLoop
    \/ ENABLED (DeepResearchEnter \/ ResearchRaise \/ ResearchFinish \/ ValidateResearchNode
                  \/ SynthesizerNode \/ FinalizeNode \/ ReturnFinalState \/ RecursionError)

\* C2: every run of execute_workflow terminates, and the state it returns has
\* workflow_status completed or failed: a run that has not returned always has
\* a step to take, every step of the run moves it forward by a measure that
\* is bounded, and the returned state is completed or failed.
C2_RunCompletes ==
    [][/\ (runVars' # runVars) => (Progress' > Progress)
       /\ Progress' <= RecursionLimit * (MaxTargets + 3) + 2
       /\ (node # "returned") /\ StepDue
       /\ (node' # "returned") => StepDue'
       /\ (node' = "returned") <=> (final' # None)
       /\ (final' # None) => (final'[1].workflow_status \in Terminal)]_vars

C2_Witness ==
    /\ final # None /\ final[1].workflow_status = "completed"
    /\ hist.research = 2
    /\ HasMessage(final[1], StepExceptionMessages)

ValidCount(st) ==
    Cardinality({i \in 1..Len(st.research_data) : st.research_data[i].confidence_score >= 50})

ClaimedDecision(valid, target_count) ==
    IF (target_count = 1 /\ valid >= 1) \/ 10 * valid >= 7 * target_count THEN "proceed"
    ELSE IF 2 * valid >= target_count THEN "retry"
    ELSE "fail"

\* C3: when the validation node does not raise, its decision is "proceed" if
\* (target_count = 1 and valid >= 1) or 10*valid >= 7*target_count, else
\* "retry" if 2*valid >= target_count, else "fail", where valid counts the
\* artifacts with confidence_score >= 0.5.
C3_ValidationDecision ==
    (state.validation_result # None /\ ~HasMessage(state, {"Validation error"}))
        => state.validation_result =
               Some(ClaimedDecision(ValidCount(state), Len(state.target_competitors)))

C3_Witness ==
    /\ Len(state.target_competitors) = 8
    /\ ValidCount(state) = 4
    /\ Len(state.research_data) = 7
    /\ state.validation_result = Some("retry")

\* C4: a validation step that yields "retry" when retry_count is already 1
\* leads to the synthesizer with the artifact collection unchanged, not to
\* deep_research and not to finalize.
C4_ForcedProceed ==
    [][(node = "validate_research" /\ state.retry_count = 1
            /\ node' # node /\ state'.validation_result = Some("retry"))
          => (node' = "synthesizer" /\ state'.research_data = state.research_data
                /\ state'.research_data # <<>>)]_vars

C4_Witness ==
    /\ hist.forced /\ state.retry_count = 1 /\ hist.research = 2
    /\ node = "finalize" /\ hist.synthesis = 1

\* C5: once the validation decision is "fail", the synthesizer does not run in
\* that run, no report exists, and the run finalizes as failed.
C5_FailSkipsSynthesis ==
    state.validation_result = Some("fail") =>
        /\ hist.synthesis = 0
        /\ state.executive_report = None
        /\ node \in {"finalize", "END", "returned"}
        /\ node \in {"END", "returned"} => state.workflow_status = "failed"
        /\ final # None => (final[1].workflow_status = "failed" /\ final[1].executive_report = None)

C5_Witness ==
    /\ state.validation_result = Some("fail")
    /\ final # None
    /\ state.research_data = <<>>
    /\ hist.research = 2

\* C6: a run in which a step raised ends with status failed and with the
\* exception's message in error_messages.
C6_ExceptionFails ==
    (final # None /\ HasMessage(state, StepExceptionMessages)) =>
        (final[1].workflow_status = "failed" /\ HasMessage(final[1], StepExceptionMessages))

\* C7: in every state committed after a step and in the returned state, a
\* report is present iff workflow_status is completed; a report comes from
\* the one synthesis step of the run, which succeeded.
C7_ReportIffCompleted ==
    /\ AtNodeBoundary =>
          ((state.executive_report # None) <=> (state.workflow_status = "completed"))
    /\ final # None =>
          ((final[1].executive_report # None) <=> (final[1].workflow_status = "completed"))
    /\ state.executive_report # None =>
          (hist.synthesis = 1 /\ state.agents_state.synthesizer.status = "completed")
    /\ hist.synthesis <= 1

C7_Witness ==
    /\ final # None /\ final[1].executive_report # None
    /\ final[1].workflow_status = "completed"

\* C8: once workflow_status is completed or failed, no step changes it.
C8_TerminalStatus ==
    [][state.workflow_status \in Terminal => state'.workflow_status = state.workflow_status]_vars

\* C9: a lookup that directly follows a successful store of a for the same
\* (competitor, research_focus), at a time not later than cached_at +
\* max_age_days and whose read does not fail, returns a record equal to a.
C9_CacheRoundTrip ==
    lastGet # None =>
        LET g == lastGet[1]
        IN  (/\ g.since # None
             /\ g.since[1].competitor = g.competitor
             /\ g.since[1].research_focus = g.research_focus
             /\ g.io = "ok"
             /\ ~Later(g.at, DateTime(g.since[1].cached_at.day + 60, g.since[1].cached_at.us)))
            => g.result = Some(g.since[1].research_data)

C9_Witness ==
    /\ lastGet # None
    /\ lastGet[1].since # None
    /\ lastGet[1].since[1].competitor = lastGet[1].competitor
    /\ lastGet[1].io = "ok"
    /\ lastGet[1].at = DateTime(60, 7)
    /\ lastGet[1].since[1].cached_at = DateTime(0, 7)
    /\ lastGet[1].result # None
    /\ Len(lastGet[1].result[1].sources) = 2
    /\ lastGet[1].result[1].sources[1].author # None

\* C10: a lookup returns nothing from an entry stored more than max_age_days
\* ago; when it reads such an entry the entry is gone afterwards, and an entry
\* that is not past expiry is returned and left in place.
C10_LazyExpiry ==
    lastGet # None =>
        LET g == lastGet[1]
            past == g.stored_at # None
                    /\ Later(g.at, DateTime(g.stored_at[1].day + 60, g.stored_at[1].us))
        IN  /\ g.result # None => (g.stored_at # None /\ ~past)
            /\ (g.stored_at # None /\ g.io = "ok") =>
                  IF past
                  THEN g.result = None /\ g.after = None /\ cache[get_cache_file_path(g.competitor, g.research_focus)] = None
                  ELSE g.result # None /\ g.after = g.before /\ cache[get_cache_file_path(g.competitor, g.research_focus)] = g.before

C10_Witness ==
    /\ lastGet # None
    /\ lastGet[1].stored_at = Some(DateTime(0, 0))
    /\ lastGet[1].at = DateTime(60, 7)
    /\ lastGet[1].before # None
    /\ lastGet[1].result = None
    /\ lastGet[1].after = None

\* The key a recorded store went to
KeyOf(store) == get_cache_file_path(store.competitor, store.research_focus)

\* C11: a lookup for a key returns the artifact of the most recent successful
\* store to that key: after every step that is not itself a lookup, for the key
\* of the store that succeeded in this step, or of the store that had
\* succeeded just before it, a lookup made now (within max_age_days of that
\* store) returns that store's artifact.  That a key names at most one entry
\* is how the cache directory is represented: one file per name.
C11_RecacheOverwrites ==
    [][lastGet' = None =>
          \A f \in DOMAIN cache :
             LET recent == IF lastStore' # None /\ KeyOf(lastStore'[1]) = f THEN lastStore'
                           ELSE IF lastStore # None /\ KeyOf(lastStore[1]) = f THEN lastStore
                           ELSE None
             IN  (recent # None /\ ~Later(now', PlusDays(recent[1].cached_at, 60)))
                    => get_cached_research(cache'[f], now', "ok").result
                          = Some(recent[1].research_data)]_vars

\* What a lookup of a file with content f returns now
Observed(f) == get_cached_research(f, now, "ok").result

\* C12: while a store has its file open, after it has closed it and after it
\* was interrupted, a lookup for the key returns either what a lookup returned
\* before the store began or the artifact being stored; after a completed
\* store it returns the new artifact, after an interrupted one the previous.
C12_WholeEntryReplace ==
    writing # None =>
        LET w == writing[1]
            seen == Observed(cache[w.file])
            previous == Observed(w.before)
            new == Some(w.research_data)
        IN  /\ w.phase = "open" => seen \in {previous, new}
            /\ w.phase = "closed" => seen = new
            /\ w.phase = "interrupted" => seen = previous

\* A step of the loop of DeepResearchAgent.execute in which a cache call failed
CacheFailureStep ==
    /\ InResearchLoop
    /\ agent'.i = agent.i + 1
    /\ faults' > faults

\* C13: a lookup whose read fails, that finds no file or that finds a file
\* that does not parse returns None, and a store whose open or write fails
\* returns False; a Research iteration in which a cache call failed goes on
\* to the next competitor with the run's status, its error messages, the
\* agent's status and the node unchanged.
C13_CacheFailOpen ==
    [][CacheFailureStep =>
          LET competitor == state.target_competitors[agent.i]
              f == cache[get_cache_file_path(competitor, state.research_focus)]
              data == parse_research_response(competitor, "sources", now)
          IN  /\ get_cached_research(f, now, "read_fail").result = None
              /\ f \in {None, TornFile} => get_cached_research(f, now, "ok").result = None
              /\ \A io \in {"open_fail", "dump_fail"} :
                    ~cache_research(f, competitor, state.research_focus, data, now, io).result
              /\ state'.workflow_status = state.workflow_status
              /\ state'.error_messages = state.error_messages
              /\ state'.agents_state.deep_research.status = state.agents_state.deep_research.status
              /\ node' = node /\ agent'.pc = agent.pc /\ final' = final]_vars

\* A run in which a store was cut short in the Research step has completed
C13_Witness ==
    /\ faults > 0
    /\ \E f \in DOMAIN cache : cache[f] = TornFile
    /\ node = "returned" /\ final # None
    /\ final[1].workflow_status = "completed"
    /\ final[1].error_messages = <<>>

\* C14: an iteration of the Research loop, whatever the extraction gave,
\* stays in the node and in the loop, moves to the next competitor, keeps the
\* records gathered so far and adds at most one, for the competitor it was
\* about; when the loop is over and the agent completes, research_data is
\* exactly the records gathered.
C14_FailedSubjectSkipped ==
    [][/\ (InResearchLoop /\ agent'.i = agent.i + 1) =>
             LET old == agent.research_results
                 new == agent'.research_results
             IN  /\ node' = node /\ agent'.pc = "loop"
                 /\ state'.workflow_status = state.workflow_status
                 /\ state'.error_messages = state.error_messages
                 /\ Len(new) \in {Len(old), Len(old) + 1}
                 /\ SubSeq(new, 1, Len(old)) = old
                 /\ Len(new) > Len(old) =>
                        new[Len(new)].competitor = state.target_competitors[agent.i]
       /\ (/\ node = "deep_research" /\ agent.pc = "loop" /\ node' = "validate_research"
           /\ state'.agents_state.deep_research.status = "completed") =>
             /\ agent.i = Len(state.target_competitors) + 1
             /\ state'.research_data = agent.research_results]_vars

\* Of two competitors the first gave nothing and the second is in the step's result
C14_Witness ==
    /\ node = "validate_research" /\ hist.research = 1
    /\ state.agents_state.deep_research.status = "completed"
    /\ Len(state.target_competitors) = 2
    /\ Len(state.research_data) = 1
    /\ state.research_data[1].competitor = TargetName(2)

\* The first Research pass is over, the agent completed, and nothing but
\* extractions failed in it
AfterCleanResearch ==
    /\ node = "validate_research" /\ hist.research = 1
    /\ state.agents_state.deep_research.status = "completed"
    /\ faults = 0

\* C15: after a Research pass in which nothing but extractions failed,
\* error_messages holds exactly one entry for each competitor whose
\* extraction failed completely, that is, for each competitor without a
\* record in research_data.
C15_FailureRecorded ==
    AfterCleanResearch =>
        Len(state.error_messages) = Len(state.target_competitors) - Len(state.research_data)

\* An API call of kind op is answered in this step
Answered(op) == response' # response /\ response'[1].op = op

\* C16: a report call for a session whose status, as a poll at that moment
\* shows it, is not completed is answered 400 (NotReady); one for a session
\* that a poll shows completed with its report generated is never answered 400.
C16_ReportWhenCompleted ==
    (response # None /\ response[1].op = "report" /\ response[1].status # "none") =>
        /\ response[1].status # "completed" => response[1].code = 400
        /\ (response[1].status = "completed" /\ response[1].report) => response[1].code # 400

\* C17: a poll for a session id that is not in the registry is answered 404
\* and leaves the registry as it was.
C17_PollUnknownNotFound ==
    [][(Answered("poll") /\ response'[1].session_id \notin DOMAIN workflow_sessions) =>
           /\ response'[1].code = 404
           /\ workflow_sessions' = workflow_sessions]_vars

\* C18: a start request whose max_age_days is below 1 or above 365 is not
\* answered with success, adds no session to the registry and schedules no
\* background task.
C18_BadAgeRejected ==
    [][(/\ Answered("start")
        /\ response'[1].request.max_age_days < 1 \/ response'[1].request.max_age_days > 365) =>
           /\ response'[1].code # 200
           /\ workflow_sessions' = workflow_sessions
           /\ background' = background]_vars

\* A start with max_age_days 366 was turned down and nothing exists
C18_Witness ==
    /\ response # None /\ response[1].op = "start"
    /\ response[1].request.max_age_days = 366
    /\ response[1].request.competitors = Some(TargetList(1))
    /\ response[1].code # 200
    /\ DOMAIN workflow_sessions = {} /\ background = <<>>

\* C19: a start request with an empty competitors list is not answered with
\* success, adds no session to the registry and schedules no background task.
C19_EmptySubjectsRejected ==
    [][(Answered("start") /\ response'[1].request.competitors = Some(<<>>)) =>
           /\ response'[1].code # 200
           /\ workflow_sessions' = workflow_sessions
           /\ background' = background]_vars

\* The file f holds an entry that was stored for competitor c, under the key
\* derived from c
DerivedFrom(f, c) ==
    /\ cache[f] # None /\ cache[f][1].complete
    /\ cache[f][1].competitor = c
    /\ get_cache_file_path(c, cache[f][1].research_focus) = f

\* C20: a clear call with a competitor removes every entry whose key was
\* derived from that competitor, a clear call without one removes every
\* entry, and the number returned is the number of entries removed.
C20_ClearRemovesSubject ==
    [][Answered("clear") =>
          LET c == response'[1].competitor
          IN  /\ \A f \in DOMAIN cache :
                    (cache[f] # None /\ (c = None \/ DerivedFrom(f, c[1]))) => cache'[f] = None
              /\ response'[1].deleted_count =
                    Cardinality({f \in DOMAIN cache : cache[f] # None /\ cache'[f] = None})]_vars

\* A call of cleanup_expired_cache is answered in this step: either the
\* response changes, or files disappear under the response of such a call
SweepStep ==
    /\ response' # None /\ response'[1].op = "cleanup"
    /\ now' = now
    /\ \/ response' # response
       \/ /\ cache' # cache
          /\ \A f \in DOMAIN cache : cache'[f] \in {cache[f], None}

\* The file f holds an entry that can be read and is past its expiry
ReadableExpired(f) ==
    /\ cache[f] # None /\ cache[f][1].complete
    /\ Later(now, PlusDays(fromisoformat(cache[f][1].cached_at), max_research_age_days))

\* C21: a sweep removes every entry that it can read and whose expiry lies
\* before now, leaves every other file as it was, and returns the number of
\* files it removed; afterwards no such entry is left among the files it
\* could read.
C21_SweepExpired ==
    [][SweepStep =>
          LET unreadable == response'[1].unreadable
              swept == {f \in DOMAIN cache : ReadableExpired(f) /\ f \notin unreadable}
          IN  /\ \A f \in swept : cache'[f] = None
              /\ \A f \in DOMAIN cache \ swept : cache'[f] = cache[f]
              /\ response'[1].deleted_count = Cardinality(swept)
              /\ \A f \in DOMAIN cache \ unreadable :
                    ~(/\ cache'[f] # None /\ cache'[f][1].complete
                      /\ IsExpired(cache'[f][1], now'))]_vars

\* A sweep removed one expired entry and left an entry that is exactly at its
\* expiry
C21_Witness ==
    /\ response # None /\ response[1].op = "cleanup"
    /\ response[1].deleted_count = 1 /\ response[1].unreadable = {}
    /\ \E f \in DOMAIN cache : cache[f] = None
    /\ \E f \in DOMAIN cache :
          /\ cache[f] # None /\ cache[f][1].complete
          /\ PlusDays(fromisoformat(cache[f][1].cached_at), max_research_age_days) = now

\* A string with its letters in lower case
Fold(str) == [i \in 1..Len(str) |-> lower(str[i])]

\* Two (competitor, focus) pairs that differ at most in letter case, in
\* trailing spaces of the competitor, and in the focus beyond its first
\* FocusPrefixLen characters
SameKeyInputs(c1, f1, c2, f2) ==
    /\ Fold(rstrip(c1)) = Fold(rstrip(c2))
    /\ Fold(Prefix(f1, FocusPrefixLen)) = Fold(Prefix(f2, FocusPrefixLen))

\* C22: the key recorded for a pair is the key any later derivation gives for
\* it, whatever the cache holds by then, and it is the key of every pair that
\* differs from it only in letter case, in trailing spaces of the competitor
\* or in the focus beyond its first 30 characters.
C22_KeyDeterministic ==
    (response # None /\ response[1].op = "key") =>
        /\ response[1].key = get_cache_file_path(response[1].competitor, response[1].research_focus)
        /\ \A c \in KeySubjects : \A f \in KeyTopics :
              SameKeyInputs(response[1].competitor, response[1].research_focus, c, f)
                 => get_cache_file_path(c, f) = response[1].key

\* With entries in the cache, the key of "a  " and a long focus was derived;
\* it is the key of "A" with a focus that differs after 30 characters, and it
\* is not the key of "b"
C22_Witness ==
    /\ response # None /\ response[1].op = "key"
    /\ response[1].competitor = <<"a", " ", " ">>
    /\ response[1].research_focus = LongFocus("b")
    /\ response[1].key = get_cache_file_path(<<"A">>, LongFocus("c"))
    /\ response[1].key # get_cache_file_path(<<"b">>, LongFocus("b"))
    /\ \E f \in DOMAIN cache : cache[f] # None

\* The progress of the Research step that a poll shows: the one in the last
\* checkpoint
PolledProgress == checkpoint[1].agents_state.deep_research.progress_percentage

\* C23: the progress_percentage of the Research step in the state a poll
\* reads never decreases from one checkpoint of the run to the next.
C23_ProgressMonotone ==
    [][(checkpoint # None /\ checkpoint' # None) => PolledProgress' >= PolledProgress]_vars

\* C24: when the synthesizer node has returned for a run with research data,
\* whatever substeps failed, all four substeps were called in their order,
\* the report exists with the placeholder of each failed substep and the
\* content of each other one, the status is completed, and the state is the
\* one the node returns when nothing escapes the substeps.
C24_SubstepFailuresTolerated ==
    (synth.pc # "idle" /\ node # "synthesizer") =>
        /\ synth.pc = "done"
        /\ synth.calls = Substeps
        /\ state.executive_report # None
        /\ \A k \in 1..Len(Substeps) :
              state.executive_report[1][Substeps[k]] =
                 IF Substeps[k] \in synth.failed THEN SubstepPlaceholder[Substeps[k]]
                 ELSE SubstepContent[Substeps[k]]
        /\ state.executive_report[1].competitor_analysis = state.research_data
        /\ state.workflow_status = "completed"
        /\ state.agents_state.synthesizer.status = "completed"
        /\ [state EXCEPT !.executive_report =
                  Some([f \in DOMAIN ExecutiveReport(<<>>, now) |-> @[1][f]])]
              = synthesizer_node(state, state.executive_report[1].generation_timestamp, "ok")

\* All four substeps failed and the run returned completed with its report
C24_Witness ==
    /\ synth.pc = "done"
    /\ synth.failed = {Substeps[k] : k \in 1..Len(Substeps)}
    /\ node = "returned" /\ final # None
    /\ final[1].workflow_status = "completed"
    /\ final[1].executive_report # None
    /\ final[1].executive_report[1].executive_summary = SubstepPlaceholder.executive_summary

\* A state as a session starts with: nothing collected, nothing recorded,
\* nothing counted
FreshState(s) ==
    /\ s.workflow_status = "pending"
    /\ s.research_data = <<>>
    /\ s.error_messages = <<>>
    /\ s.executive_report = None
    /\ s.validation_result = None
    /\ s.retry_count = 0
    /\ \A a \in DOMAIN s.agents_state : s.agents_state[a] = AgentState("pending", 0, None)

\* C25: sessions are independent. The state of a session that starts while
\* another one runs is fresh and starting it leaves the running one as it is;
\* a step of the running session leaves the run of the waiting session as it
\* is; and when the event loop passes from one task to the other, both runs and
\* the cache are what they were.
C25_SessionsIndependent ==
    [][/\ (parked = None /\ parked' # None)
              => FreshState(parked'[1].state) /\ UNCHANGED runVars
       /\ (parked # None /\ parked' # None /\ parked'[1].session_id = parked[1].session_id)
              => parked' = parked
       /\ (parked # None /\ parked' # None /\ parked'[1].session_id # parked[1].session_id)
              => parked'[1] = CurrentRun /\ CurrentRun' = parked[1] /\ UNCHANGED cacheVars
      ]_vars

\* Two sessions that ran interleaved have both returned, with different outcomes
C25_Witness ==
    /\ parked # None
    /\ final # None /\ parked[1].final # None
    /\ final[1].workflow_status # parked[1].final[1].workflow_status
    /\ parked[1].hist.research > 0 /\ hist.research > 0

\* The run of the session is executing: its task has begun and has not
\* written the final registry entry
RunExecuting(session_id) ==
    IF session_id \in DOMAIN workflow_sessions
    THEN workflow_sessions[session_id].status = "in_progress"
    ELSE FALSE

\* C26: a poll answered while the run of its session is executing succeeds
\* and shows the status and the step progress records of the snapshot that was
\* committed when the last transition completed: the state itself when no
\* node is executing, and still the committed one while a node is at work on
\* the state.  While no snapshot has been committed yet, the poll shows the
\* registry entry and no step progress record at all.
C26_PollCommittedSnapshot ==
    [][(Answered("poll") /\ RunExecuting(response'[1].session_id))
          => /\ response'[1].code = 200
             /\ IF checkpoint = None
                THEN /\ response'[1].status = "in_progress"
                     /\ response'[1].agents_state = None
                ELSE /\ response'[1].status = checkpoint[1].workflow_status
                     /\ response'[1].agents_state = Some(checkpoint[1].agents_state)
                     /\ agent.pc = "idle" => response'[1].agents_state = Some(state.agents_state)
      ]_vars

\* A poll was answered from the committed snapshot while the research node was
\* in its loop and had already changed its step progress record
C26_Witness ==
    /\ response # None
    /\ response[1].op = "poll"
    /\ response[1].code = 200
    /\ RunExecuting(response[1].session_id)
    /\ agent.pc = "loop"
    /\ checkpoint # None
    /\ response[1].agents_state = Some(checkpoint[1].agents_state)
    /\ response[1].agents_state # Some(state.agents_state)

\* C27: in every state of the cache, no stored entry is older than
\* max_research_age_days: now is never later than cached_at plus
\* max_research_age_days for an entry that is in its file.
C27_NoEntryOutlivesMaxAge ==
    \A f \in DOMAIN cache : ~ReadableExpired(f)

\* The subjects of a sequence of research records
NamesOf(results) == [k \in 1..Len(results) |-> results[k].competitor]

\* a can be obtained from b by leaving elements out
IsSubsequence(a, b) ==
    \E m \in [1..Len(a) -> 1..Len(b)] :
        /\ \A k \in 1..Len(a) : a[k] = b[m[k]]
        /\ \A j, k \in 1..Len(a) : j < k => m[j] < m[k]

\* C28: within a research pass the subjects are handled one at a time in the
\* order of the target list: when the loop is at subject i the records
\* collected so far are records of the subjects before i, at most one each and
\* in target order; the collection a pass leaves in the state is such a
\* subsequence of the whole target list, so it never has more records than
\* there are targets.
C28_OnePassInTargetOrder ==
    /\ agent.pc = "loop" =>
          /\ agent.i \in 1..(Len(state.target_competitors) + 1)
          /\ IsSubsequence(NamesOf(agent.research_results),
                           SubSeq(state.target_competitors, 1, agent.i - 1))
    /\ IsSubsequence(NamesOf(state.research_data), state.target_competitors)
    /\ Len(state.research_data) <= Len(state.target_competitors)

\* A pass over several subjects has left fewer records than subjects, and the
\* first subject is the one left out
C28_Witness ==
    /\ node = "validate_research"
    /\ Len(state.target_competitors) > 1
    /\ state.research_data # <<>>
    /\ Len(state.research_data) < Len(state.target_competitors)
    /\ state.research_data[1].competitor # state.target_competitors[1]

ExtractionCalls == {"primary_ok", "primary_raise", "fallback_ok", "fallback_raise"}

\* The step logged a call for the subject in work
LoggedCall(call) ==
    /\ hist' # hist
    /\ hist'.calls # <<>>
    /\ hist'.calls[Len(hist'.calls)] = call

\* The file of the subject whose calls are logged
SubjectFile(h) == get_cache_file_path(state.target_competitors[h.subject], state.research_focus)

\* C29: for each subject the first thing done is the lookup in the cache.  On
\* a hit the cached record is what the pass takes for the subject, no
\* extraction call and no store follow for it, and the cache is left as it
\* was; every extraction call made for a subject comes after a miss for it.
C29_CacheBeforeExtraction ==
    [][/\ hist'.calls # <<>> =>
             /\ hist'.calls[1] \in {"hit", "miss"}
             /\ \A k \in 2..Len(hist'.calls) : hist'.calls[k] \notin {"hit", "miss"}
             /\ hist'.calls[1] = "hit" => Len(hist'.calls) = 1
             /\ (\E k \in 1..Len(hist'.calls) : hist'.calls[k] \in ExtractionCalls)
                    => hist'.calls[1] = "miss"
       /\ LoggedCall("hit") =>
             /\ cache' = cache
             /\ cache[SubjectFile(hist')] # None
             /\ agent'.research_results =
                    Append(agent.research_results,
                           deserialize_research_data(cache[SubjectFile(hist')][1].research_data))
             /\ agent'.pc = "loop" /\ agent'.i = agent.i + 1
      ]_vars

\* A subject was answered from the cache and the pass went on to the next one
C29_Witness ==
    /\ node = "deep_research" /\ agent.pc = "loop"
    /\ hist.calls = <<"hit">>
    /\ agent.i = hist.subject + 1
    /\ agent.research_results # <<>>
    /\ cache[SubjectFile(hist)] # None

\* C30: for a subject the fallback call is made at most once, and only as the
\* call that follows a primary call that raised; the cache is written for a
\* subject only in the store that follows a call that returned a record; and
\* when both calls raised, nothing is appended and nothing is written for it.
C30_FallbackOnceStoreAfterArtifact ==
    [][/\ \A j, k \in 1..Len(hist'.calls) :
             (hist'.calls[j] \in {"fallback_ok", "fallback_raise"}
                 /\ hist'.calls[k] \in {"fallback_ok", "fallback_raise"}) => j = k
       /\ \A k \in 1..Len(hist'.calls) :
             /\ hist'.calls[k] \in {"fallback_ok", "fallback_raise"}
                    => k > 1 /\ hist'.calls[k - 1] = "primary_raise"
             /\ hist'.calls[k] = "store"
                    => k > 1 /\ hist'.calls[k - 1] \in {"primary_ok", "fallback_ok"}
       /\ cache' # cache => LoggedCall("store") \/ LoggedCall("miss")
       /\ LoggedCall("miss") => \A f \in DOMAIN cache : cache'[f] \in {cache[f], None}
       /\ LoggedCall("fallback_raise") =>
             /\ cache' = cache
             /\ agent'.research_results = agent.research_results
             /\ agent'.pc = "loop" /\ agent'.i = agent.i + 1
      ]_vars

\* Both calls raised for the first subject: the pass is at the next subject
\* with nothing collected and the file of the first subject not written
C30_Witness ==
    /\ node = "deep_research" /\ agent.pc = "loop"
    /\ hist.calls = <<"miss", "primary_raise", "fallback_raise">>
    /\ agent.i = hist.subject + 1
    /\ agent.research_results = <<>>
    /\ cache[SubjectFile(hist)] = None

\* The synthesizer node runs: the graph is at the node before the step and
\* past it afterwards
SynthesisStep == node = "synthesizer" /\ node' = "finalize"

\* The sources of a collection of records, each named by the position of its
\* record and its position in the record
SourcesOf(research_data) ==
    UNION {{<<k, j>> : j \in 1..Len(research_data[k].sources)} : k \in 1..Len(research_data)}

\* C31: the synthesis step leaves research_data, the target list and the step
\* record of the research step as they were, and a report it produces holds
\* exactly the records of research_data and counts all their sources.
C31_SynthesisKeepsResearch ==
    [][SynthesisStep =>
          /\ state'.research_data = state.research_data
          /\ state'.target_competitors = state.target_competitors
          /\ state'.agents_state.deep_research = state.agents_state.deep_research
          /\ state'.executive_report # None =>
                /\ state'.executive_report[1].competitor_analysis = state.research_data
                /\ state'.executive_report[1].data_sources_count
                       = Cardinality(SourcesOf(state.research_data))
      ]_vars

\* A report over several records that do not all have one source
C31_Witness ==
    /\ node = "finalize"
    /\ state.executive_report # None
    /\ Len(state.executive_report[1].competitor_analysis) > 1
    /\ state.executive_report[1].competitor_analysis = state.research_data
    /\ state.executive_report[1].data_sources_count > Len(state.research_data)

\* C32: the state create_initial_state returns has the session id and the
\* target list it was called with, workflow_status pending, exactly the two
\* step records deep_research and synthesizer, both pending at progress 0, no
\* research data, no report, no error messages and retry_count 0.
C32_InitialState ==
    (response # None /\ response[1].op = "create") =>
        /\ state.session_id = response[1].session_id
        /\ state.target_competitors = response[1].target_competitors
        /\ state.workflow_status = "pending"
        /\ DOMAIN state.agents_state = {"deep_research", "synthesizer"}
        /\ \A a \in DOMAIN state.agents_state :
              /\ state.agents_state[a].status = "pending"
              /\ state.agents_state[a].progress_percentage = 0
        /\ state.research_data = <<>>
        /\ state.executive_report = None
        /\ state.error_messages = <<>>
        /\ state.retry_count = 0

\* A state was created for the empty target list
C32_Witness ==
    /\ response # None
    /\ response[1].op = "create"
    /\ response[1].session_id = "error-test"
    /\ state.session_id = "error-test"
    /\ state.target_competitors = <<>>

\* C33: whenever the synthesizer node is due, research_data is not empty, on
\* the path of a proceed decision as on the path of the forced proceed after
\* a retry; so SynthesizerAgent.execute never meets the empty collection that
\* makes it fail with 'No research data available'.
C33_SynthesisHasData ==
    node = "synthesizer" => state.research_data # <<>>

\* The synthesizer is due after a retry decision that was turned into proceed
C33_Witness ==
    /\ node = "synthesizer"
    /\ hist.forced
    /\ state.validation_result = Some("retry")
    /\ state.research_data # <<>>

\* The order of the statuses: pending before in_progress before the terminal ones
StatusRank(status) ==
    CASE status = "pending" -> 0
      [] status = "in_progress" -> 1
      [] status \in {"completed", "failed"} -> 2

\* C34: the status that the polls of a session show never moves backwards:
\* a poll that is answered after another answered poll of the same session,
\* with no other call in between, shows a status of the same or a higher rank.
C34_PolledStatusMonotone ==
    [][(/\ response # None
        /\ response[1].op = "poll" /\ response[1].code = 200
        /\ Answered("poll") /\ response'[1].code = 200
        /\ response'[1].session_id = response[1].session_id)
          => StatusRank(response'[1].status) >= StatusRank(response[1].status)
      ]_vars

C36_SubjectsSeparate ==
    (lastGet # None /\ lastGet[1].result # None)
       => Fold(lastGet[1].result[1].competitor) = Fold(lastGet[1].competitor)

\* C37: a clear call with a competitor removes no entry that was stored for
\* another competitor: every file that holds an entry naming a competitor
\* other than the given one is the same after the call.
C37_ClearKeepsOthers ==
    [][(Answered("clear") /\ response'[1].competitor # None) =>
          \A f \in DOMAIN cache :
             (/\ cache[f] # None /\ cache[f][1].complete
              /\ cache[f][1].competitor # response'[1].competitor[1])
                => cache'[f] = cache[f]]_vars

\* C38: get_cached_research, cleanup_expired_cache and cache_research, called
\* by sessions in any order, delete no entry that is not expired: a step in
\* which a file disappears removes an entry that can be read and is past its
\* expiry, so an entry stored again under the key of an expired one is still
\* there when the calls have finished.
C38_OnlyExpiredDeleted ==
    [][\A f \in DOMAIN cache :
          (cache[f] # None /\ cache'[f] = None) => ReadableExpired(f)]_vars

\* A call found the entry of a key expired and unlinked it, the key was
\* stored again afterwards, and the new entry is in its file
C38_Witness ==
    /\ writing # None /\ lastStore # None
    /\ writing[1].phase = "done"
    /\ get_cache_file_path(lastStore[1].competitor, lastStore[1].research_focus) = writing[1].file
    /\ cache[writing[1].file] =
          Some(CacheEntry(lastStore[1].competitor, lastStore[1].research_focus,
                          lastStore[1].cached_at, lastStore[1].research_data))
    /\ cache[writing[1].file] # writing[1].read

\* The competitors that the records of a collection name
SubjectsOf(results) == {results[k].competitor : k \in 1..Len(results)}

\* The research loop is running in a pass after the first one; until that
\* pass ends, research_data is the collection of the pass before
InRetryPass ==
    /\ node = "deep_research" /\ agent.pc # "idle"
    /\ hist.research >= 2

\* The calls logged are those of the current pass for the subject in work
LogIsCurrent ==
    /\ hist.subject >= 1 /\ hist.calls # <<>>
    /\ \/ agent.i > hist.subject
       \/ (agent.i = hist.subject /\ agent.pc # "loop")

\* What C39 promises of a later pass: the subject in work, if the pass before
\* had a record for it, was served by a cache hit alone; every subject gone
\* through that had a record has one again; and at the end of the loop the
\* collection has at least as many valid records as the one before.
RetryKeepsData ==
    /\ (LogIsCurrent /\ state.target_competitors[hist.subject] \in SubjectsOf(state.research_data))
          => hist.calls = <<"hit">>
    /\ \A j \in 1..(agent.i - 1) :
          state.target_competitors[j] \in SubjectsOf(state.research_data)
             => state.target_competitors[j] \in SubjectsOf(agent.research_results)
    /\ agent.i > Len(state.target_competitors)
          => /\ valid_competitors(agent.research_results) >= valid_competitors(state.research_data)
             /\ Len(agent.research_results) >= Len(state.research_data)

====
